---- MODULE Spec2Model ----
(***************************************************************************)
(* A model of gitent: the SQLite store (gitent-core/src/storage.rs), the   *)
(* data model (gitent-core/src/models.rs), the server, its HTTP handlers   *)
(* and its watcher (gitent-server), the SDK client (gitent-sdk) and the    *)
(* CLI commit and rollback commands (gitent-cli).                          *)
(*                                                                         *)
(* Option<T> is modelled as a sequence: <<>> is None, <<v>> is Some(v).    *)
(* Uuids are modelled as positive integers; their text order (the order    *)
(* of an index scan) is the integer order.  Uuid::new_v4() picks any id    *)
(* that is not in use.                                                     *)
(***************************************************************************)
EXTENDS Integers, Sequences, FiniteSets, TLC

\* ------------------------------------------------------------------ bounds

MaxSessions == 2
MaxChanges == 2
MaxCommits == 2
MaxReqLen == 2
MaxBatches == 1
MaxBatchPaths == 2

\* usize::MAX, with usize scaled down to 8 bits: far above the sum of the
\* length of an edit script of the model and a context of up to MaxContext
UsizeMax == 255

\* ---------------------------------------------------------------- options

None == <<>>
Some(v) == <<v>>
IsSome(o) == o # <<>>
Unwrap(o) == o[1]

\* ------------------------------------------------------------ basic values

SessionIds == 1..MaxSessions
ChangeIds == 1..MaxChanges
CommitIds == 1..MaxCommits

\* A request string that Uuid::parse_str rejects.
BadUuidText == 0

\* Uuid::parse_str(text).ok() on the text of a request
ParseUuid(text) == IF text = BadUuidText THEN None ELSE Some(text)

\* ChangeType::as_str
AsStr(change_type) ==
    CASE change_type = "Create" -> "create"
      [] change_type = "Modify" -> "modify"
      [] change_type = "Delete" -> "delete"
      [] change_type = "Rename" -> "rename"

\* A variant of ChangeType::parse that takes every other text for a modify
ParseChangeTypeOrModify(s) ==
    CASE s = "create" -> Some("Create")
      [] s = "modify" -> Some("Modify")
      [] s = "delete" -> Some("Delete")
      [] s = "rename" -> Some("Rename")
      [] OTHER -> Some("Modify")

\* ChangeType::parse
ParseChangeType(s) ==
    CASE s = "create" -> Some("Create")
      [] s = "modify" -> Some("Modify")
      [] s = "delete" -> Some("Delete")
      [] s = "rename" -> Some("Rename")
      [] OTHER -> None

ChangeTypes == {"Create", "Modify", "Delete", "Rename"}

\* Paths are strings.  "<FF>" in a path stands for a byte that is not valid
\* UTF-8 (a Unix file name may hold one, and the notification source hands
\* the name on as it is).
Root == "/r"
RelPaths == {"a.txt", "b.txt"}
FilePaths == {"/r/a.txt", "/r/b.txt"}
NonUtf8Path == "/r/f<FF>.txt"

\* Path::to_string_lossy: every invalid sequence becomes U+FFFD
ToStringLossy(path) ==
    LET n == Len(path)
        lossy[i \in 1..(n + 1)] ==
            IF i > n THEN ""
            ELSE IF i + 3 <= n /\ SubSeq(path, i, i + 3) = "<FF>"
            THEN "<FFFD>" \o lossy[i + 4]
            ELSE SubSeq(path, i, i) \o lossy[i + 1]
    IN lossy[1]

\* PathBuf::from(String)
PathBufFrom(text) == text

\* Path::is_absolute
IsAbsolute(path) == Len(path) >= 1 /\ SubSeq(path, 1, 1) = "/"

\* Path::join: an absolute argument replaces the base
Join(root, path) == IF IsAbsolute(path) THEN path ELSE root \o "/" \o path

\* A variant of the function below that looks for the pattern at the start only
StartsWith(text, pattern) ==
    Len(text) >= Len(pattern) /\ SubSeq(text, 1, Len(pattern)) = pattern

\* str::contains
Contains(text, pattern) ==
    \E i \in 0..(Len(text) - Len(pattern)) : SubSeq(text, i + 1, i + Len(pattern)) = pattern

\* Path::strip_prefix(base).unwrap_or(path): whole components only
StripPrefixOr(path, base) ==
    IF path = base THEN ""
    ELSE IF Len(path) > Len(base) /\ SubSeq(path, 1, Len(base) + 1) = base \o "/"
    THEN SubSeq(path, Len(base) + 2, Len(path))
    ELSE path

\* Change::hash_content: the SHA-256 digest of the bytes, in hex
HashContent(content) == "sha256:" \o content

\* Session::new
DefaultIgnorePatterns == <<".git", "target", "node_modules", ".gitent">>

SessionNew(id, root_path, now) ==
    [id |-> id, root_path |-> root_path, started |-> now, ended |-> None,
     active |-> TRUE, ignore_patterns |-> DefaultIgnorePatterns]

\* Session::end
SessionEnd(session, now) ==
    [session EXCEPT !.active = FALSE, !.ended = Some(now)]

\* Change::new
ChangeNew(id, now, change_type, path, session_id) ==
    [id |-> id, timestamp |-> now, change_type |-> change_type, path |-> path,
     old_path |-> None, content_before |-> None, content_after |-> None,
     content_hash_before |-> None, content_hash_after |-> None,
     agent_id |-> None, metadata |-> <<>>, session_id |-> session_id]

\* Change::with_content_before
WithContentBefore(change, content) ==
    [change EXCEPT !.content_hash_before = Some(HashContent(content)),
                   !.content_before = Some(content)]

\* Change::with_content_after
WithContentAfter(change, content) ==
    [change EXCEPT !.content_hash_after = Some(HashContent(content)),
                   !.content_after = Some(content)]

\* Change::with_agent_id
WithAgentId(change, agent_id) == [change EXCEPT !.agent_id = Some(agent_id)]

\* Change::with_metadata: HashMap::insert, the map being a function key -> value
WithMetadata(change, key, value) == [change EXCEPT !.metadata = (key :> value) @@ @]

\* Change::with_old_path
WithOldPath(change, old_path) == [change EXCEPT !.old_path = Some(old_path)]

\* `if let Some(v) = opt { change = f(change, v) }`
WithOptBefore(change, opt) ==
    IF IsSome(opt) THEN WithContentBefore(change, Unwrap(opt)) ELSE change
WithOptAfter(change, opt) ==
    IF IsSome(opt) THEN WithContentAfter(change, Unwrap(opt)) ELSE change
WithOptAgent(change, opt) ==
    IF IsSome(opt) THEN WithAgentId(change, Unwrap(opt)) ELSE change

\* serde_json::to_string of a HashMap<String, String>: its entries, in the
\* order the map iterates them
MetadataToJson(metadata) ==
    LET keys == DOMAIN metadata
        q == CHOOSE q \in [1..Cardinality(keys) -> keys] : {q[i] : i \in 1..Cardinality(keys)} = keys
    IN [i \in 1..Cardinality(keys) |-> <<q[i], metadata[q[i]]>>]

\* serde_json::from_str into a HashMap<String, String>: a later entry of a
\* key replaces an earlier one
MetadataFromJson(text) ==
    [k \in {text[i][1] : i \in 1..Len(text)} |->
        text[CHOOSE i \in 1..Len(text) :
                /\ text[i][1] = k
                /\ \A j \in 1..Len(text) : text[j][1] = k => j <= i][2]]

\* Commit::new
CommitNew(id, now, message, agent_id, change_ids, session_id) ==
    [id |-> id, parent |-> None, timestamp |-> now, message |-> message,
     agent_id |-> agent_id, changes |-> change_ids, session_id |-> session_id]

\* ------------------------------------------------------- sequence helpers

Range(s) == {s[i] : i \in 1..Len(s)}

\* filter_map over a sequence of options: the Some values, in order
RECURSIVE FilterMap(_)
FilterMap(opts) ==
    IF opts = <<>> THEN <<>>
    ELSE IF IsSome(Head(opts)) THEN <<Unwrap(Head(opts))>> \o FilterMap(Tail(opts))
    ELSE FilterMap(Tail(opts))

\* The integers of a set in ascending order
RECURSIVE SortedAsc(_)
SortedAsc(S) ==
    IF S = {} THEN <<>>
    ELSE LET m == CHOOSE x \in S : \A y \in S : x <= y
         IN <<m>> \o SortedAsc(S \ {m})

\* The rows of a sequence ordered by timestamp, newest first (ORDER BY
\* timestamp DESC).  Rows that share a timestamp keep their rowid order.
RECURSIVE OrderByTimestampDesc(_)
OrderByTimestampDesc(rows) ==
    IF rows = <<>> THEN <<>>
    ELSE LET i == CHOOSE k \in 1..Len(rows) :
                    \A j \in 1..Len(rows) :
                        \/ rows[j].timestamp < rows[k].timestamp
                        \/ (rows[j].timestamp = rows[k].timestamp /\ j >= k)
             rest == [j \in 1..(Len(rows) - 1) |->
                        IF j < i THEN rows[j] ELSE rows[j + 1]]
         IN <<rows[i]>> \o OrderByTimestampDesc(rest)

SeqsUpTo(S, n) == UNION {[1..k -> S] : k \in 0..n}

\* ---------------------------------------------------------------- diffing
\* A content is a Vec<u8>, modelled as a string; InvalidByte stands for a byte
\* (0xFF) that no UTF-8 text holds.

NewLine == "\n"

InvalidByte == "<FF>"

\* String::from_utf8(bytes).ok()
FromUtf8(bytes) ==
    IF \E i \in 1..Len(bytes) :
          i + Len(InvalidByte) - 1 <= Len(bytes)
          /\ SubSeq(bytes, i, i + Len(InvalidByte) - 1) = InvalidByte
    THEN None ELSE Some(bytes)

\* The lines of a text as TextDiff::from_lines cuts them: each line keeps its
\* newline, and the last one is whatever follows the last newline, if anything
RECURSIVE SplitLines(_)
SplitLines(text) ==
    IF text = "" THEN <<>>
    ELSE LET ends == {i \in 1..Len(text) : SubSeq(text, i, i) = NewLine}
             n == IF ends = {} THEN Len(text)
                  ELSE CHOOSE i \in ends : \A j \in ends : i <= j
         IN <<SubSeq(text, 1, n)>> \o SplitLines(SubSeq(text, n + 1, Len(text)))

\* The length of a longest common subsequence of two sequences of lines
RECURSIVE LcsLen(_, _)
LcsLen(a, b) ==
    IF a = <<>> \/ b = <<>> THEN 0
    ELSE IF Head(a) = Head(b) THEN 1 + LcsLen(Tail(a), Tail(b))
    ELSE LET x == LcsLen(Tail(a), b)
             y == LcsLen(a, Tail(b))
         IN IF x >= y THEN x ELSE y

\* TextDiff::from_lines(old, new).iter_all_changes(): a shortest edit script
\* over the lines, a deletion coming before an insertion where both are possible
RECURSIVE IterAllChanges(_, _)
IterAllChanges(a, b) ==
    IF a = <<>> /\ b = <<>> THEN <<>>
    ELSE IF a # <<>> /\ b # <<>> /\ Head(a) = Head(b)
    THEN <<[tag |-> "Equal", value |-> Head(a)]>> \o IterAllChanges(Tail(a), Tail(b))
    ELSE IF a # <<>> /\ (b = <<>> \/ LcsLen(Tail(a), b) >= LcsLen(a, Tail(b)))
    THEN <<[tag |-> "Delete", value |-> Head(a)]>> \o IterAllChanges(Tail(a), b)
    ELSE <<[tag |-> "Insert", value |-> Head(b)]>> \o IterAllChanges(a, Tail(b))

\* change.to_string(): the line, with a newline added to a line that has none
ChangeToString(value) ==
    IF value # "" /\ SubSeq(value, Len(value), Len(value)) = NewLine
    THEN value ELSE value \o NewLine

\* The loop of FileDiff::compute_diff over the edit script
RECURSIVE ComputeDiffLoop(_, _, _)
ComputeDiffLoop(changes, old_line_num, new_line_num) ==
    IF changes = <<>> THEN <<>>
    ELSE LET change == Head(changes)
             line(line_type, old_num, new_num) ==
                 [line_type |-> line_type, content |-> ChangeToString(change.value),
                  old_line_number |-> old_num, new_line_number |-> new_num]
         IN CASE change.tag = "Delete" ->
                   <<line("Deletion", Some(old_line_num), None)>>
                   \o ComputeDiffLoop(Tail(changes), old_line_num + 1, new_line_num)
              [] change.tag = "Insert" ->
                   <<line("Addition", None, Some(new_line_num))>>
                   \o ComputeDiffLoop(Tail(changes), old_line_num, new_line_num + 1)
              [] change.tag = "Equal" ->
                   <<line("Context", Some(old_line_num), Some(new_line_num))>>
                   \o ComputeDiffLoop(Tail(changes), old_line_num + 1, new_line_num + 1)

\* A variant of compute_diff whose counters start at 0
ComputeDiffFromZero(old_text, new_text) ==
    ComputeDiffLoop(IterAllChanges(SplitLines(old_text), SplitLines(new_text)), 0, 0)

\* FileDiff::compute_diff
ComputeDiff(old_text, new_text) ==
    ComputeDiffLoop(IterAllChanges(SplitLines(old_text), SplitLines(new_text)), 1, 1)

\* Option::and_then(|bytes| String::from_utf8(bytes).ok())
AndThenFromUtf8(content) ==
    IF IsSome(content) THEN FromUtf8(Unwrap(content)) ELSE None

\* A variant of from_change that fails on a content that is not UTF-8
FromChangeStrict(change) ==
    LET old_content == AndThenFromUtf8(change.content_before)
        new_content == AndThenFromUtf8(change.content_after)
        diff_lines == IF IsSome(old_content) /\ IsSome(new_content)
                      THEN ComputeDiff(Unwrap(old_content), Unwrap(new_content))
                      ELSE <<>>
    IN [ok |-> /\ IsSome(change.content_before) => IsSome(old_content)
               /\ IsSome(change.content_after) => IsSome(new_content),
        val |-> [path |-> ToStringLossy(change.path), old_content |-> old_content,
                 new_content |-> new_content, diff_lines |-> diff_lines]]

\* FileDiff::from_change
FromChange(change) ==
    LET old_content == AndThenFromUtf8(change.content_before)
        new_content == AndThenFromUtf8(change.content_after)
        diff_lines == IF IsSome(old_content) /\ IsSome(new_content)
                      THEN ComputeDiff(Unwrap(old_content), Unwrap(new_content))
                      ELSE <<>>
    IN [ok |-> TRUE,
        val |-> [path |-> ToStringLossy(change.path), old_content |-> old_content,
                 new_content |-> new_content, diff_lines |-> diff_lines]]

\* hunk_lines.join("")
RECURSIVE JoinLines(_)
JoinLines(lines) ==
    IF lines = <<>> THEN "" ELSE Head(lines) \o JoinLines(Tail(lines))

\* unwrap_or(0) of a line number
UnwrapOrZero(opt) == IF IsSome(opt) THEN Unwrap(opt) ELSE 0

\* i.saturating_sub(context_lines)
SaturatingSub(i, n) == IF i >= n THEN i - n ELSE 0

\* output.push_str(&format!(fmt, args...)): the output is modelled as the
\* sequence of the pieces pushed, each one a format and its arguments
Pushed(fmt, args) == [fmt |-> fmt, args |-> args]

\* a + b on usize: with overflow checks (the default of a debug build) a sum
\* above usize::MAX panics, which is None here; without them (the default of
\* a release build) it wraps
UsizeAdd(a, b, overflow_checks) ==
    IF a + b <= UsizeMax THEN Some(a + b)
    ELSE IF overflow_checks THEN None
    ELSE Some((a + b) % (UsizeMax + 1))

\* The loop of FileDiff::format_unified from index i (counted from 0) on; a
\* panic ends the output with a piece that says so
RECURSIVE FormatUnifiedLoop(_, _, _, _, _, _, _, _)
FormatUnifiedLoop(diff_lines, context_lines, overflow_checks, i, in_hunk, hunk_start, hunk_lines, output) ==
    IF i >= Len(diff_lines) THEN output
    ELSE LET line == diff_lines[i + 1]
         IN IF line.line_type # "Context" \/ in_hunk
            THEN LET start == IF ~in_hunk THEN SaturatingSub(i, context_lines)
                              ELSE hunk_start
                     prefix == CASE line.line_type = "Addition" -> "+"
                                 [] line.line_type = "Deletion" -> "-"
                                 [] line.line_type = "Context" -> " "
                     lines == Append(hunk_lines, prefix \o line.content)
                     sum == UsizeAdd(i, context_lines, overflow_checks)
                 IN IF ~IsSome(sum)
                    THEN Append(output, Pushed("panicked", <<"attempt to add with overflow">>))
                    ELSE IF Unwrap(sum) >= Len(diff_lines) - 1
                    THEN FormatUnifiedLoop(diff_lines, context_lines, overflow_checks, i + 1,
                             FALSE, start, <<>>,
                             output \o
                             <<Pushed("@@ -{},{} +{},{} @@\n",
                                      <<UnwrapOrZero(diff_lines[start + 1].old_line_number),
                                        Len(lines),
                                        UnwrapOrZero(diff_lines[start + 1].new_line_number),
                                        Len(lines)>>),
                               Pushed("{}", <<JoinLines(lines)>>)>>)
                    ELSE FormatUnifiedLoop(diff_lines, context_lines, overflow_checks, i + 1,
                                           TRUE, start, lines, output)
            ELSE FormatUnifiedLoop(diff_lines, context_lines, overflow_checks, i + 1, in_hunk,
                                   hunk_start, hunk_lines, output)

\* A variant of format_unified that starts with a hunk open
FormatUnifiedInHunk(file_diff, context_lines, overflow_checks) ==
    FormatUnifiedLoop(file_diff.diff_lines, context_lines, overflow_checks, 0, TRUE, 0, <<>>,
                      <<Pushed("--- {}\n", <<file_diff.path>>),
                        Pushed("+++ {}\n", <<file_diff.path>>)>>)

\* FileDiff::format_unified
FormatUnified(file_diff, context_lines, overflow_checks) ==
    FormatUnifiedLoop(file_diff.diff_lines, context_lines, overflow_checks, 0, FALSE, 0, <<>>,
                      <<Pushed("--- {}\n", <<file_diff.path>>),
                        Pushed("+++ {}\n", <<file_diff.path>>)>>)

\* ------------------------------------------------------------------ state

VARIABLES
    foreign_keys,   \* whether the SQLite build enforces FOREIGN KEY clauses
    db,             \* the database file: sessions, changes, commits, commit_changes
    running,        \* the ids of the sessions whose server process is running
    sdk_changes,    \* GitentClient::commit between its two requests: the ids it read
    fs,             \* the files under the root: full path -> Option<content>
    pre_commit,     \* history: commit id -> the files as they were before its first change
    base_fs,        \* history: the files as they were when the last commit was made
    calls,          \* history: the create_change and create_commit calls made so far,
                    \* each with its argument, its result and whether the rows it
                    \* refers to existed (the session of a change, the changes of
                    \* a commit)
    rb,             \* history: the last run of gitent rollback, step by step
    batch,          \* history: the last batch the pipeline task of a server handled
    last_diff,      \* history: the last FileDiff made, and its unified format
    writing,        \* Storage::create_commit between two of its statements: the
                    \* process it runs in, its commit and the ids it has yet to insert
    last_read,      \* history: the last list of commits a reader was given, and
                    \* the create_commit that was between two statements then
    pipe            \* the watcher of the running server: the channel between the
                    \* debouncer and the pipeline task, the position of the task,
                    \* the holder of the storage lock, and what became of the batches

vars == <<foreign_keys, db, running, sdk_changes, fs, pre_commit, base_fs, calls, rb, batch,
          last_diff, writing, last_read, pipe>>

\* --------------------------------------------------- storage: the tables

EmptyDb == [sessions |-> <<>>, changes |-> <<>>, commits |-> <<>>, commit_changes |-> {}]

Ok(d, v) == [ok |-> TRUE, db |-> d, val |-> v]
Err(d, e) == [ok |-> FALSE, db |-> d, err |-> e]

\* Utc::now(): the program compares time stamps only within one table (ORDER
\* BY timestamp), so the model keeps one logical clock per table, which ticks
\* with every row stored in it
SessionClock(d) == Len(d.sessions) + 1
ChangeClock(d) == Len(d.changes) + 1
CommitClock(d) == Len(d.commits) + 1

SessionRowIds(d) == {d.sessions[i].id : i \in 1..Len(d.sessions)}
ChangeRowIds(d) == {d.changes[i].id : i \in 1..Len(d.changes)}
CommitRowIds(d) == {d.commits[i].id : i \in 1..Len(d.commits)}

FreshSessionIds == SessionIds \ SessionRowIds(db)
FreshChangeIds == ChangeIds \ ChangeRowIds(db)
FreshCommitIds == CommitIds \ CommitRowIds(db)

\* Storage::session_from_row
SessionFromRow(row) ==
    [id |-> row.id, root_path |-> PathBufFrom(row.root_path), started |-> row.started,
     ended |-> row.ended, active |-> (row.active # 0),
     ignore_patterns |-> row.ignore_patterns]

\* Storage::change_from_row
ChangeFromRow(row) ==
    [id |-> row.id, timestamp |-> row.timestamp,
     change_type |-> Unwrap(ParseChangeType(row.change_type)),
     path |-> PathBufFrom(row.path),
     old_path |-> IF IsSome(row.old_path) THEN Some(PathBufFrom(Unwrap(row.old_path))) ELSE None,
     content_before |-> row.content_before, content_after |-> row.content_after,
     content_hash_before |-> row.content_hash_before,
     content_hash_after |-> row.content_hash_after,
     agent_id |-> row.agent_id, metadata |-> MetadataFromJson(row.metadata),
     session_id |-> row.session_id]

\* A variant of the query below without its WHERE commit_id = ?1
GetChangesOfAnyCommit(d, commit_id) ==
    SortedAsc({m.change_id : m \in d.commit_changes})

\* Storage::get_changes_for_commit: SELECT change_id FROM commit_changes WHERE
\* commit_id = ?1, answered from the primary-key index (commit_id, change_id),
\* so in the order of the change ids
GetChangesForCommit(d, commit_id) ==
    SortedAsc({m.change_id : m \in {r \in d.commit_changes : r.commit_id = commit_id}})

\* Storage::commit_from_row
CommitFromRow(d, row) ==
    [id |-> row.id, parent |-> row.parent, timestamp |-> row.timestamp,
     message |-> row.message, agent_id |-> row.agent_id,
     changes |-> GetChangesForCommit(d, row.id), session_id |-> row.session_id]

\* ------------------------------------------------ storage: the operations

\* A variant of create_session whose statement is INSERT OR REPLACE
ReplaceSession(d, session) ==
    LET row == [id |-> session.id, root_path |-> ToStringLossy(session.root_path),
                started |-> session.started, ended |-> session.ended,
                active |-> IF session.active THEN 1 ELSE 0,
                ignore_patterns |-> session.ignore_patterns]
    IN Ok([d EXCEPT !.sessions =
              Append(SelectSeq(@, LAMBDA r : r.id # session.id), row)], TRUE)

\* Storage::create_session: one INSERT; id is the primary key
CreateSession(d, session) ==
    IF session.id \in SessionRowIds(d)
    THEN Err(d, <<"Database", "UNIQUE constraint failed: sessions.id">>)
    ELSE Ok([d EXCEPT !.sessions = Append(@,
                [id |-> session.id, root_path |-> ToStringLossy(session.root_path),
                 started |-> session.started, ended |-> session.ended,
                 active |-> IF session.active THEN 1 ELSE 0,
                 ignore_patterns |-> session.ignore_patterns])], TRUE)

\* Storage::get_session
GetSession(d, id) ==
    IF \E i \in 1..Len(d.sessions) : d.sessions[i].id = id
    THEN Ok(d, SessionFromRow(d.sessions[CHOOSE i \in 1..Len(d.sessions) : d.sessions[i].id = id]))
    ELSE Err(d, <<"SessionNotFound", id>>)

\* A variant of the query below without its WHERE active = 1
GetFirstSession(d) ==
    IF d.sessions = <<>> THEN Err(d, <<"NoActiveSession">>)
    ELSE Ok(d, SessionFromRow(d.sessions[1]))

\* Storage::get_active_session: SELECT ... WHERE active = 1 LIMIT 1, a scan of
\* the table in rowid order that stops at the first active row
GetActiveSession(d) ==
    LET act == {i \in 1..Len(d.sessions) : d.sessions[i].active = 1}
    IN IF act = {} THEN Err(d, <<"NoActiveSession">>)
       ELSE Ok(d, SessionFromRow(d.sessions[CHOOSE i \in act : \A j \in act : i <= j]))

\* Storage::update_session: UPDATE sessions SET ended, active, ignore_patterns WHERE id
UpdateSession(d, session) ==
    Ok([d EXCEPT !.sessions = [i \in 1..Len(@) |->
            IF @[i].id = session.id
            THEN [@[i] EXCEPT !.ended = session.ended,
                              !.active = IF session.active THEN 1 ELSE 0,
                              !.ignore_patterns = session.ignore_patterns]
            ELSE @[i]]], TRUE)

\* Storage::create_change: one INSERT; id is the primary key, session_id
\* REFERENCES sessions(id)
CreateChange(d, change) ==
    IF change.id \in ChangeRowIds(d)
    THEN Err(d, <<"Database", "UNIQUE constraint failed: changes.id">>)
    ELSE IF foreign_keys /\ change.session_id \notin SessionRowIds(d)
    THEN Err(d, <<"Database", "FOREIGN KEY constraint failed">>)
    ELSE Ok([d EXCEPT !.changes = Append(@,
                [id |-> change.id, session_id |-> change.session_id,
                 timestamp |-> change.timestamp,
                 change_type |-> AsStr(change.change_type),
                 path |-> ToStringLossy(change.path),
                 old_path |-> IF IsSome(change.old_path)
                              THEN Some(ToStringLossy(Unwrap(change.old_path))) ELSE None,
                 content_before |-> change.content_before,
                 content_after |-> change.content_after,
                 content_hash_before |-> change.content_hash_before,
                 content_hash_after |-> change.content_hash_after,
                 agent_id |-> change.agent_id,
                 metadata |-> MetadataToJson(change.metadata)])], TRUE)

\* Storage::get_change
GetChange(d, id) ==
    IF \E i \in 1..Len(d.changes) : d.changes[i].id = id
    THEN Ok(d, ChangeFromRow(d.changes[CHOOSE i \in 1..Len(d.changes) : d.changes[i].id = id]))
    ELSE Err(d, <<"ChangeNotFound", id>>)

\* A variant of the query below without its WHERE c.session_id = ?1
GetUncommittedOfAnySession(d, session_id) ==
    LET sel == SelectSeq(d.changes, LAMBDA row :
                   row.id \notin {m.change_id : m \in d.commit_changes})
        ord == OrderByTimestampDesc(sel)
    IN [i \in 1..Len(ord) |-> ChangeFromRow(ord[i])]

\* Storage::get_uncommitted_changes
GetUncommittedChanges(d, session_id) ==
    LET sel == SelectSeq(d.changes, LAMBDA row :
                   /\ row.session_id = session_id
                   /\ row.id \notin {m.change_id : m \in d.commit_changes})
        ord == OrderByTimestampDesc(sel)
    IN [i \in 1..Len(ord) |-> ChangeFromRow(ord[i])]

\* The INSERT INTO commits of Storage::create_commit
InsertCommitRow(d, commit) ==
    IF commit.id \in CommitRowIds(d)
    THEN Err(d, <<"Database", "UNIQUE constraint failed: commits.id">>)
    ELSE IF foreign_keys /\ (\/ commit.session_id \notin SessionRowIds(d)
                             \/ (IsSome(commit.parent) /\ Unwrap(commit.parent) \notin CommitRowIds(d)))
    THEN Err(d, <<"Database", "FOREIGN KEY constraint failed">>)
    ELSE Ok([d EXCEPT !.commits = Append(@,
                [id |-> commit.id, session_id |-> commit.session_id,
                 parent |-> commit.parent, timestamp |-> commit.timestamp,
                 message |-> commit.message, agent_id |-> commit.agent_id])], TRUE)

\* A variant of the insert below that first takes the change out of the
\* commits that hold it
MoveMembershipRow(d, commit_id, change_id) ==
    IF [commit_id |-> commit_id, change_id |-> change_id] \in d.commit_changes
    THEN Err(d, <<"Database", "UNIQUE constraint failed: commit_changes">>)
    ELSE IF foreign_keys /\ change_id \notin ChangeRowIds(d)
    THEN Err(d, <<"Database", "FOREIGN KEY constraint failed">>)
    ELSE Ok([d EXCEPT !.commit_changes =
                {m \in @ : m.change_id # change_id}
                \cup {[commit_id |-> commit_id, change_id |-> change_id]}], TRUE)

\* One INSERT INTO commit_changes; (commit_id, change_id) is the primary key,
\* change_id REFERENCES changes(id)
InsertMembershipRow(d, commit_id, change_id) ==
    IF [commit_id |-> commit_id, change_id |-> change_id] \in d.commit_changes
    THEN Err(d, <<"Database", "UNIQUE constraint failed: commit_changes">>)
    ELSE IF foreign_keys /\ change_id \notin ChangeRowIds(d)
    THEN Err(d, <<"Database", "FOREIGN KEY constraint failed">>)
    ELSE Ok([d EXCEPT !.commit_changes =
                @ \cup {[commit_id |-> commit_id, change_id |-> change_id]}], TRUE)

\* The loop of Storage::create_commit over commit.changes: each INSERT is a
\* statement of its own (the connection is in autocommit mode), and the first
\* failing one returns with `?`
RECURSIVE InsertMemberships(_, _, _)
InsertMemberships(d, commit_id, change_ids) ==
    IF change_ids = <<>> THEN Ok(d, TRUE)
    ELSE LET r == InsertMembershipRow(d, commit_id, Head(change_ids))
         IN IF r.ok THEN InsertMemberships(r.db, commit_id, Tail(change_ids)) ELSE r

\* Storage::create_commit
CreateCommit(d, commit) ==
    LET r == InsertCommitRow(d, commit)
    IN IF r.ok THEN InsertMemberships(r.db, commit.id, commit.changes) ELSE r

\* A variant of get_commit that reports a missing row as a missing change
GetCommitOrChangeNotFound(d, id) ==
    IF \E i \in 1..Len(d.commits) : d.commits[i].id = id
    THEN Ok(d, CommitFromRow(d, d.commits[CHOOSE i \in 1..Len(d.commits) : d.commits[i].id = id]))
    ELSE Err(d, <<"ChangeNotFound", id>>)

\* Storage::get_commit
GetCommit(d, id) ==
    IF \E i \in 1..Len(d.commits) : d.commits[i].id = id
    THEN Ok(d, CommitFromRow(d, d.commits[CHOOSE i \in 1..Len(d.commits) : d.commits[i].id = id]))
    ELSE Err(d, <<"CommitNotFound", id>>)

\* A variant of get_commit_info that counts every listed id
GetCommitInfoOfListed(d, commit) ==
    LET found == FilterMap([i \in 1..Len(commit.changes) |->
                     LET r == GetChange(d, commit.changes[i])
                     IN IF r.ok THEN Some(r.val) ELSE None])
    IN [commit |-> commit, change_count |-> Len(commit.changes),
        files_affected |-> [i \in 1..Len(found) |-> found[i].path]]

\* Storage::get_commit_info
GetCommitInfo(d, commit) ==
    LET found == FilterMap([i \in 1..Len(commit.changes) |->
                     LET r == GetChange(d, commit.changes[i])
                     IN IF r.ok THEN Some(r.val) ELSE None])
    IN [commit |-> commit, change_count |-> Len(found),
        files_affected |-> [i \in 1..Len(found) |-> found[i].path]]

\* Storage::get_commits_for_session
GetCommitsForSession(d, session_id) ==
    LET sel == SelectSeq(d.commits, LAMBDA row : row.session_id = session_id)
        ord == OrderByTimestampDesc(sel)
    IN [i \in 1..Len(ord) |-> GetCommitInfo(d, CommitFromRow(d, ord[i]))]

\* ------------------------------------------------------------ file system

AllFiles == FilePaths \cup {NonUtf8Path}

\* std::fs::read(path).ok(): None when the file is missing or unreadable
ReadFile(f, path) == IF path \in DOMAIN f THEN f[path] ELSE None

\* Path::exists
Exists(f, path) == path \in DOMAIN f /\ IsSome(f[path])

\* The files after path is given the content v (std::fs::write) or, with
\* v = None, is removed (std::fs::remove_file)
SetFile(f, path, v) == (path :> v) @@ f

\* std::fs::rename: the file moves, replacing a file at the target
RenameFile(f, from, to) ==
    IF from = to THEN f ELSE SetFile(SetFile(f, to, ReadFile(f, from)), from, None)

\* ----------------------------------------------------------------- watcher

\* FileWatcher::should_ignore
ShouldIgnore(path, root_path, ignore_patterns) ==
    LET path_str == ToStringLossy(StripPrefixOr(path, root_path))
    IN \E i \in 1..Len(ignore_patterns) : Contains(path_str, ignore_patterns[i])

\* A variant of the match below that keeps what it reads of a modified or
\* removed file as the content before
EventChangeWithBefore(f, kind, path, id, now, session_id) ==
    CASE kind = "Create" ->
            Some(WithOptAfter(ChangeNew(id, now, "Create", path, session_id), ReadFile(f, path)))
      [] kind = "Modify" ->
            Some(WithOptBefore(ChangeNew(id, now, "Modify", path, session_id), ReadFile(f, path)))
      [] kind = "Remove" ->
            Some(WithOptBefore(ChangeNew(id, now, "Delete", path, session_id), Some("x")))
      [] OTHER -> None

\* A variant of the match below that makes no change of a file it cannot read
EventChangeIfRead(f, kind, path, id, now, session_id) ==
    CASE kind = "Create" /\ IsSome(ReadFile(f, path)) ->
            Some(WithOptAfter(ChangeNew(id, now, "Create", path, session_id), ReadFile(f, path)))
      [] kind = "Modify" /\ IsSome(ReadFile(f, path)) ->
            Some(WithOptAfter(ChangeNew(id, now, "Modify", path, session_id), ReadFile(f, path)))
      [] kind = "Remove" ->
            Some(ChangeNew(id, now, "Delete", path, session_id))
      [] OTHER -> None

\* The match on event.kind in FileWatcher::handle_event
EventChange(f, kind, path, id, now, session_id) ==
    CASE kind = "Create" ->
            Some(WithOptAfter(ChangeNew(id, now, "Create", path, session_id), ReadFile(f, path)))
      [] kind = "Modify" ->
            Some(WithOptAfter(ChangeNew(id, now, "Modify", path, session_id), ReadFile(f, path)))
      [] kind = "Remove" ->
            Some(ChangeNew(id, now, "Delete", path, session_id))
      [] OTHER -> None

\* Storage::create_change where conn.execute can also fail for a reason that is
\* not in the rows of the store (the database file is locked by another
\* connection, the disk is full): busy tells whether this call fails so
TryCreateChange(d, change, busy) ==
    IF busy THEN Err(d, <<"Database", "database is locked">>) ELSE CreateChange(d, change)

\* FileWatcher::handle_event: the loop over event.paths; ids are the uuids
\* Change::new draws, one per stored change, busy the fate of the create_change
\* calls to come, one per call, and tried the calls made so far, each with
\* its change and its result.  The `?` on create_change leaves the loop at the
\* first failure.
RECURSIVE HandleEventBusy(_, _, _, _, _, _, _, _, _)
HandleEventBusy(d, f, event, ids, busy, session_id, root_path, ignore_patterns, tried) ==
    IF event.paths = <<>>
    THEN [ok |-> TRUE, db |-> d, ids |-> ids, busy |-> busy, tried |-> tried]
    ELSE LET path == Head(event.paths)
             rest == [event EXCEPT !.paths = Tail(@)]
             change == EventChange(f, event.kind, path, Head(ids), ChangeClock(d), session_id)
         IN IF ShouldIgnore(path, root_path, ignore_patterns) \/ ~IsSome(change)
            THEN HandleEventBusy(d, f, rest, ids, busy, session_id, root_path,
                                 ignore_patterns, tried)
            ELSE LET r == TryCreateChange(d, Unwrap(change), Head(busy))
                     call == [change |-> Unwrap(change), ok |-> r.ok]
                 IN IF r.ok
                    THEN HandleEventBusy(r.db, f, rest, Tail(ids), Tail(busy), session_id,
                                         root_path, ignore_patterns, Append(tried, call))
                    ELSE [ok |-> FALSE, db |-> r.db, ids |-> ids, busy |-> Tail(busy),
                          tried |-> Append(tried, call)]

\* FileWatcher::handle_event on a store whose create_change calls fail only for
\* what is in its rows; done are the changes stored so far
HandleEvent(d, f, event, ids, session_id, root_path, ignore_patterns, done) ==
    LET r == HandleEventBusy(d, f, event, ids, [i \in 1..Len(event.paths) |-> FALSE],
                             session_id, root_path, ignore_patterns, <<>>)
        stored == SelectSeq(r.tried, LAMBDA call : call.ok)
    IN [ok |-> r.ok, db |-> r.db, val |-> done \o [i \in 1..Len(stored) |-> stored[i].change]]

\* The pipeline task of FileWatcher::new on one flushed batch: handle_event for
\* each event in turn, an error of one being logged
RECURSIVE HandleBatch(_, _, _, _, _, _, _, _, _)
HandleBatch(d, f, events, ids, busy, session_id, root_path, ignore_patterns, tried) ==
    IF events = <<>> THEN [db |-> d, tried |-> tried]
    ELSE LET r == HandleEventBusy(d, f, Head(events), ids, busy, session_id, root_path,
                                  ignore_patterns, tried)
         IN HandleBatch(r.db, f, Tail(events), r.ids, r.busy, session_id, root_path,
                        ignore_patterns, r.tried)

\* The sequences of n distinct unused change ids
FreshIdSeqs(n) ==
    {q \in [1..n -> FreshChangeIds] : \A i, j \in 1..n : i # j => q[i] # q[j]}

\* ----------------------------------------------------------------- actions

\* GitentServer::new on the database: a new session row, then the watcher and
\* its pipeline task for that session
ServerStart(id) ==
    /\ id \in FreshSessionIds
    /\ LET session == SessionNew(id, Root, SessionClock(db))
           r == CreateSession(db, session)
       IN /\ r.ok
          /\ db' = r.db
          /\ running' = running \cup {id}
    /\ UNCHANGED <<pipe, writing, last_read, last_diff, rb, batch, foreign_keys, sdk_changes, fs, pre_commit, base_fs, calls>>

\* The server process of a session exits (Ctrl+C): GitentServer::serve ends
\* and nothing is written to the store
ServerExit(id) ==
    /\ id \in running
    /\ running' = running \ {id}
    /\ UNCHANGED <<pipe, writing, last_read, last_diff, rb, batch, foreign_keys, db, sdk_changes, fs, pre_commit, base_fs, calls>>

\* A caller of the library ends a session: get_session, Session::end, update_session
EndSession(id) ==
    /\ GetSession(db, id).ok
    /\ GetSession(db, id).val.active
    /\ LET session == SessionEnd(GetSession(db, id).val, SessionClock(db))
           r == UpdateSession(db, session)
       IN db' = r.db
    /\ UNCHANGED <<pipe, writing, last_read, last_diff, rb, batch, foreign_keys, running, sdk_changes, fs, pre_commit, base_fs, calls>>

\* The pipeline task of a running server handles one event of a batch
WatcherEvent(id, event, ids) ==
    /\ id \in running
    /\ LET session == GetSession(db, id).val
           r == HandleEvent(db, fs, event, ids, id, session.root_path,
                            session.ignore_patterns, <<>>)
       IN /\ db' = r.db
          /\ calls' = calls \cup {[op |-> "create_change", via |-> "watcher", ok |-> TRUE,
                                    change |-> r.val[i],
                                    session_exists |-> id \in SessionRowIds(db)] :
                                        i \in 1..Len(r.val)}
    /\ UNCHANGED <<pipe, writing, last_read, last_diff, rb, batch, foreign_keys, running, sdk_changes, fs, pre_commit, base_fs>>

\* The paths of a batch in the order the pipeline task meets them, each with
\* the kind of its event
RECURSIVE BatchPaths(_)
BatchPaths(events) ==
    IF events = <<>> THEN <<>>
    ELSE [i \in 1..Len(Head(events).paths) |->
             [kind |-> Head(events).kind, path |-> Head(events).paths[i]]]
         \o BatchPaths(Tail(events))

\* The pipeline task of a running server handles one flushed batch: the loop
\* over its events, each create_change under the storage lock
WatcherBatch(id, events, ids, busy) ==
    /\ id \in running
    /\ batch.n < MaxBatches
    /\ LET session == GetSession(db, id).val
           r == HandleBatch(db, fs, events, ids, busy, id, session.root_path,
                            session.ignore_patterns, <<>>)
           met == BatchPaths(events)
       IN /\ db' = r.db
          /\ calls' = calls \cup {[op |-> "create_change", via |-> "watcher",
                                    ok |-> r.tried[i].ok, change |-> r.tried[i].change,
                                    session_exists |-> id \in SessionRowIds(db)] :
                                        i \in 1..Len(r.tried)}
          /\ batch' = [run |-> TRUE, n |-> batch.n + 1, session_id |-> id,
                       root_path |-> session.root_path,
                       ignore_patterns |-> session.ignore_patterns,
                       events |-> events, tried |-> r.tried,
                       discarded |-> {met[i].path : i \in {k \in 1..Len(met) :
                           ShouldIgnore(met[k].path, session.root_path,
                                        session.ignore_patterns)}}]
    /\ UNCHANGED <<pipe, writing, last_read, last_diff, rb, foreign_keys, running, sdk_changes, fs, pre_commit, base_fs>>

\* The body of api.rs create_change (POST /changes), under the storage lock
HandleCreateChange(req, id) ==
    LET s == GetActiveSession(db)
        change_type == ParseChangeType(req.change_type)
        change == WithOptAgent(WithOptAfter(WithOptBefore(
                     ChangeNew(id, ChangeClock(db), Unwrap(change_type), PathBufFrom(req.path), s.val.id),
                     req.content_before), req.content_after), req.agent_id)
        r == CreateChange(db, change)
    IN IF ~s.ok
       THEN UNCHANGED <<db, calls>>      \* NOT_FOUND
       ELSE IF ~IsSome(change_type)
       THEN UNCHANGED <<db, calls>>      \* BAD_REQUEST
       ELSE /\ db' = r.db
            /\ calls' = calls \cup {[op |-> "create_change", via |-> "api", ok |-> r.ok,
                                     change |-> change, session_exists |-> s.val.id \in SessionRowIds(db)]}

ApiCreateChange(req, id) ==
    /\ running # {}
    /\ HandleCreateChange(req, id)
    /\ UNCHANGED <<pipe, writing, last_read, last_diff, rb, batch, foreign_keys, running, sdk_changes, fs, pre_commit, base_fs>>

\* A caller of the library stores a change it built with Change::new and the
\* with_* builders: Storage::create_change
LibCreateChange(change) ==
    /\ change.id \in FreshChangeIds
    /\ LET r == CreateChange(db, change)
       IN /\ db' = r.db
          /\ calls' = calls \cup {[op |-> "create_change", via |-> "lib", ok |-> r.ok,
                                   change |-> change,
                                   session_exists |-> change.session_id \in SessionRowIds(db),
                                   stored |-> Len(r.db.changes) > Len(db.changes)]}
    /\ UNCHANGED <<pipe, writing, last_read, last_diff, rb, batch, foreign_keys, running, sdk_changes, fs, pre_commit, base_fs>>

\* The history kept with a commit: the files before its first change
CommitHistory(commit_id, r) ==
    IF commit_id \in CommitRowIds(r.db)
    THEN /\ pre_commit' = [pre_commit EXCEPT ![commit_id] = Some(base_fs)]
         /\ base_fs' = fs
    ELSE UNCHANGED <<pre_commit, base_fs>>

\* The body of api.rs create_commit (POST /commits), under the storage lock
HandleCreateCommit(req, id, via) ==
    LET s == GetActiveSession(db)
        change_ids == FilterMap([i \in 1..Len(req.change_ids) |-> ParseUuid(req.change_ids[i])])
        commit == CommitNew(id, CommitClock(db), req.message, req.agent_id, change_ids, s.val.id)
        r == CreateCommit(db, commit)
    IN IF ~s.ok
       THEN UNCHANGED <<db, pre_commit, base_fs, calls>>      \* NOT_FOUND
       ELSE /\ db' = r.db
            /\ calls' = calls \cup {[op |-> "create_commit", via |-> via, ok |-> r.ok,
                                     commit |-> commit,
                                     ids_exist |-> Range(change_ids) \subseteq ChangeRowIds(db)]}
            /\ CommitHistory(id, r)

ApiCreateCommit(req, id) ==
    /\ running # {}
    /\ id \in FreshCommitIds
    /\ HandleCreateCommit(req, id, "api")
    /\ UNCHANGED <<pipe, writing, last_read, last_diff, rb, batch, foreign_keys, running, sdk_changes, fs>>

\* gitent commit (commands/commit.rs run), on its own connection to the file
CliCommit(message, agent_id, id) ==
    /\ Len(db.sessions) > 0      \* db_path.exists()
    /\ id \in FreshCommitIds
    /\ LET s == GetActiveSession(db)
           changes == GetUncommittedChanges(db, s.val.id)
           change_ids == [i \in 1..Len(changes) |-> changes[i].id]
           commit == CommitNew(id, CommitClock(db), message, agent_id, change_ids, s.val.id)
           r == CreateCommit(db, commit)
       IN IF ~s.ok
          THEN UNCHANGED <<db, pre_commit, base_fs, calls>>      \* "No active session found"
          ELSE IF changes = <<>>
          THEN UNCHANGED <<db, pre_commit, base_fs, calls>>      \* "No changes to commit"
          ELSE /\ db' = r.db
               /\ calls' = calls \cup {[op |-> "create_commit", via |-> "cli", ok |-> r.ok,
                                        commit |-> commit,
                                     ids_exist |-> Range(change_ids) \subseteq ChangeRowIds(db)]}
               /\ CommitHistory(id, r)
    /\ UNCHANGED <<pipe, writing, last_read, last_diff, rb, batch, foreign_keys, running, sdk_changes, fs>>

\* GitentClient::commit, first request: GET /changes (api.rs get_uncommitted_changes)
SdkCommitRead ==
    /\ running # {}
    /\ sdk_changes = None
    /\ LET s == GetActiveSession(db)
           changes == GetUncommittedChanges(db, s.val.id)
       IN /\ s.ok
          /\ sdk_changes' = Some([i \in 1..Len(changes) |-> changes[i].id])
    /\ UNCHANGED <<pipe, writing, last_read, last_diff, rb, batch, foreign_keys, db, running, fs, pre_commit, base_fs, calls>>

\* GitentClient::commit, second request: POST /commits with the ids it read
SdkCommitPost(message, agent_id, id) ==
    /\ running # {}
    /\ IsSome(sdk_changes)
    /\ id \in FreshCommitIds
    /\ HandleCreateCommit([message |-> message, agent_id |-> agent_id,
                           change_ids |-> Unwrap(sdk_changes)], id, "sdk")
    /\ sdk_changes' = None
    /\ UNCHANGED <<pipe, writing, last_read, last_diff, rb, batch, foreign_keys, running, fs>>

\* The POST of GitentClient::commit finds no server: the call returns the error
SdkCommitRefused ==
    /\ running = {}
    /\ IsSome(sdk_changes)
    /\ sdk_changes' = None
    /\ UNCHANGED <<pipe, writing, last_read, last_diff, rb, batch, foreign_keys, db, running, fs, pre_commit, base_fs, calls>>

\* ---------------------------------------------------------------- rollback

\* A variant of the function below whose Modify branch writes content_after
PerformRollbackToContentAfter(change, root_path, f, io_ok) ==
    LET full_path == Join(root_path, change.path)
        done(g) == IF io_ok THEN [ok |-> TRUE, fs |-> g] ELSE [ok |-> FALSE, fs |-> f]
    IN CASE change.change_type = "Create" ->
                IF Exists(f, full_path)
                THEN done(SetFile(f, full_path, None))
                ELSE [ok |-> TRUE, fs |-> f]
         [] change.change_type = "Modify" ->
                IF IsSome(change.content_before)
                THEN done(SetFile(f, full_path, change.content_after))
                ELSE [ok |-> TRUE, fs |-> f]
         [] change.change_type = "Delete" ->
                IF IsSome(change.content_before)
                THEN done(SetFile(f, full_path, change.content_before))
                ELSE [ok |-> TRUE, fs |-> f]
         [] change.change_type = "Rename" ->
                IF IsSome(change.old_path) /\ Exists(f, full_path)
                THEN done(RenameFile(f, full_path, Join(root_path, Unwrap(change.old_path))))
                ELSE [ok |-> TRUE, fs |-> f]

\* perform_rollback_for_change: io_ok tells whether the file operation of this
\* step, if it makes one, succeeds; a failed operation leaves the files as
\* they were.  The files are a map of file paths: a directory is there when a
\* file below it is, so create_dir_all adds no entry.
PerformRollbackForChange(change, root_path, f, io_ok) ==
    LET full_path == Join(root_path, change.path)
        done(g) == IF io_ok THEN [ok |-> TRUE, fs |-> g] ELSE [ok |-> FALSE, fs |-> f]
    IN CASE change.change_type = "Create" ->
                IF Exists(f, full_path)
                THEN done(SetFile(f, full_path, None))
                ELSE [ok |-> TRUE, fs |-> f]
         [] change.change_type = "Modify" ->
                IF IsSome(change.content_before)
                THEN done(SetFile(f, full_path, change.content_before))
                ELSE [ok |-> TRUE, fs |-> f]
         [] change.change_type = "Delete" ->
                IF IsSome(change.content_before)
                THEN done(SetFile(f, full_path, change.content_before))
                ELSE [ok |-> TRUE, fs |-> f]
         [] change.change_type = "Rename" ->
                IF IsSome(change.old_path) /\ Exists(f, full_path)
                THEN done(RenameFile(f, full_path, Join(root_path, Unwrap(change.old_path))))
                ELSE [ok |-> TRUE, fs |-> f]

\* A variant of the loop below that stops at the first step that fails
RECURSIVE RollbackLoopUntilError(_, _, _, _, _)
RollbackLoopUntilError(changes, root_path, f, io, steps) ==
    IF changes = <<>> THEN steps
    ELSE LET r == PerformRollbackForChange(Head(changes), root_path, f, io[Len(steps) + 1])
             next == Append(steps, [change |-> Head(changes), before |-> f,
                                    after |-> r.fs, ok |-> r.ok])
         IN IF r.ok THEN RollbackLoopUntilError(Tail(changes), root_path, r.fs, io, next)
            ELSE next

\* The loop of rollback.rs run over the changes: one record per change, with
\* the files before and after its step
RECURSIVE RollbackLoop(_, _, _, _, _)
RollbackLoop(changes, root_path, f, io, steps) ==
    IF changes = <<>> THEN steps
    ELSE LET r == PerformRollbackForChange(Head(changes), root_path, f, io[Len(steps) + 1])
         IN RollbackLoop(Tail(changes), root_path, r.fs, io,
                         Append(steps, [change |-> Head(changes), before |-> f,
                                        after |-> r.fs, ok |-> r.ok]))

\* A variant of the function below that does not look at execute
RollbackOutcomeExecuting(session_ok, commit_ok, changes, execute) ==
    IF ~session_ok \/ ~commit_ok THEN "error"
    ELSE IF changes = <<>> THEN "empty"
    ELSE "done"

\* The way rollback.rs run ends: with an error of `?`, at "No changes in this
\* commit to rollback", at "This is a preview only", or after its loop
RollbackOutcome(session_ok, commit_ok, changes, execute) ==
    IF ~session_ok \/ ~commit_ok THEN "error"
    ELSE IF changes = <<>> THEN "empty"
    ELSE IF ~execute THEN "preview"
    ELSE "done"

\* gitent rollback <commit> [--execute] (commands/rollback.rs run)
CliRollback(commit_id, execute, io) ==
    /\ Len(db.sessions) > 0      \* db_path.exists()
    /\ LET session == GetActiveSession(db)
           commit_uuid == ParseUuid(commit_id)
           commit == GetCommit(db, Unwrap(commit_uuid))
           found == [i \in 1..Len(commit.val.changes) |->
                        LET c == GetChange(db, commit.val.changes[i])
                        IN IF c.ok THEN Some(c.val) ELSE None]
           changes == FilterMap(found)
           steps == RollbackLoop(changes, session.val.root_path, fs, io, <<>>)
           oks == {i \in 1..Len(steps) : steps[i].ok}
           report(how, st) ==
               [run |-> TRUE, commit_id |-> commit_id, execute |-> execute,
                outcome |-> how, steps |-> st,
                success_count |-> Cardinality({i \in 1..Len(st) : st[i].ok}),
                errors |-> Cardinality({i \in 1..Len(st) : ~st[i].ok}),
                clean |-> /\ Len(db.commits) > 0
                          /\ IsSome(commit_uuid)
                          /\ db.commits[Len(db.commits)].id = Unwrap(commit_uuid)
                          /\ fs = base_fs,
                prior |-> rb.run /\ (rb.prior \/ rb.outcome = "done")]
           outcome == RollbackOutcome(session.ok, IsSome(commit_uuid) /\ commit.ok,
                                      IF IsSome(commit_uuid) /\ commit.ok THEN changes ELSE <<>>,
                                      execute)
       IN IF outcome = "done"
          THEN /\ rb' = report("done", steps)
               /\ fs' = steps[Len(steps)].after
          ELSE /\ rb' = report(outcome, <<>>)
               /\ fs' = fs
    /\ UNCHANGED <<pipe, writing, last_read, last_diff, batch, foreign_keys, db, running, sdk_changes, pre_commit, base_fs, calls>>

\* An agent writes a new file and announces it: GitentClient::file_created
SdkFileCreated(path, content, id) ==
    /\ running # {}
    /\ ~Exists(fs, Join(Root, path))
    /\ fs' = SetFile(fs, Join(Root, path), Some(content))
    /\ HandleCreateChange([change_type |-> "create", path |-> path, content_before |-> None,
                           content_after |-> Some(content), agent_id |-> Some("sdk-agent")], id)
    /\ UNCHANGED <<pipe, writing, last_read, last_diff, rb, batch, foreign_keys, running, sdk_changes, pre_commit, base_fs>>

\* An agent rewrites a file and announces it: GitentClient::file_modified
SdkFileModified(path, content, id) ==
    /\ running # {}
    /\ Exists(fs, Join(Root, path))
    /\ ReadFile(fs, Join(Root, path)) # Some(content)
    /\ fs' = SetFile(fs, Join(Root, path), Some(content))
    /\ HandleCreateChange([change_type |-> "modify", path |-> path,
                           content_before |-> ReadFile(fs, Join(Root, path)),
                           content_after |-> Some(content), agent_id |-> Some("sdk-agent")], id)
    /\ UNCHANGED <<pipe, writing, last_read, last_diff, rb, batch, foreign_keys, running, sdk_changes, pre_commit, base_fs>>

\* An agent removes a file and announces it: GitentClient::file_deleted
SdkFileDeleted(path, id) ==
    /\ running # {}
    /\ Exists(fs, Join(Root, path))
    /\ fs' = SetFile(fs, Join(Root, path), None)
    /\ HandleCreateChange([change_type |-> "delete", path |-> path,
                           content_before |-> ReadFile(fs, Join(Root, path)),
                           content_after |-> None, agent_id |-> Some("sdk-agent")], id)
    /\ UNCHANGED <<pipe, writing, last_read, last_diff, rb, batch, foreign_keys, running, sdk_changes, pre_commit, base_fs>>

\* A caller of the library moves a file and stores the Rename change it built
\* with Change::new and with_old_path: Storage::create_change
LibFileRenamed(old_path, path, id) ==
    /\ id \in FreshChangeIds
    /\ GetActiveSession(db).ok
    /\ Exists(fs, Join(Root, old_path))
    /\ ~Exists(fs, Join(Root, path))
    /\ fs' = RenameFile(fs, Join(Root, old_path), Join(Root, path))
    /\ LET change == WithOldPath(ChangeNew(id, ChangeClock(db), "Rename", path,
                                           GetActiveSession(db).val.id), old_path)
           r == CreateChange(db, change)
       IN /\ db' = r.db
          /\ calls' = calls \cup {[op |-> "create_change", via |-> "lib", ok |-> r.ok,
                                   change |-> change, session_exists |-> TRUE]}
    /\ UNCHANGED <<pipe, writing, last_read, last_diff, rb, batch, foreign_keys, running, sdk_changes, pre_commit, base_fs>>

\* A file under the root is written or removed by a program that announces
\* nothing, and the pipeline task of the running server records the event
WatchedWrite(id, kind, path, content, ids) ==
    /\ id \in running
    /\ CASE kind = "Create" -> ~Exists(fs, path) /\ IsSome(content)
         [] kind = "Modify" -> Exists(fs, path) /\ IsSome(content) /\ fs[path] # content
         [] kind = "Remove" -> Exists(fs, path) /\ ~IsSome(content)
    /\ fs' = SetFile(fs, path, content)
    /\ LET session == GetSession(db, id).val
           r == HandleEvent(db, fs', [kind |-> kind, paths |-> <<path>>], ids, id,
                            session.root_path, session.ignore_patterns, <<>>)
       IN /\ db' = r.db
          /\ calls' = calls \cup {[op |-> "create_change", via |-> "watcher", ok |-> TRUE,
                                    change |-> r.val[i],
                                    session_exists |-> id \in SessionRowIds(db)] :
                                        i \in 1..Len(r.val)}
    /\ UNCHANGED <<pipe, writing, last_read, last_diff, rb, batch, foreign_keys, running, sdk_changes, pre_commit, base_fs>>

\* ------------------------------------------------- the store and its users

\* The requests and events of this specification
ChangeRequests ==
    {[change_type |-> "create", path |-> "a.txt", content_before |-> None,
      content_after |-> Some("x"), agent_id |-> Some("agent-1")],
     [change_type |-> "modify", path |-> "a.txt", content_before |-> Some("x"),
      content_after |-> Some("xy"), agent_id |-> None],
     [change_type |-> "chmod", path |-> "a.txt", content_before |-> None,
      content_after |-> None, agent_id |-> None]}

CommitRequests ==
    {[message |-> "init", agent_id |-> "agent-1", change_ids |-> ids] :
        ids \in SeqsUpTo(ChangeIds \cup {BadUuidText}, MaxReqLen)}

Events ==
    {[kind |-> k, paths |-> <<p>>] :
        k \in {"Create", "Remove", "Access"}, p \in {"/r/a.txt", "/r/.git/HEAD"}}

NoBatch == [run |-> FALSE, n |-> 0]

NoDiff == [run |-> FALSE, formatted |-> FALSE, n |-> 0]

NoRead == [run |-> FALSE]

\* start.rs run: the database file is the --db path or, without one,
\* <root>/.gitent/gitent.db
DbPath(abs_path, db_opt) ==
    IF IsSome(db_opt) THEN Unwrap(db_opt) ELSE Join(Join(abs_path, ".gitent"), "gitent.db")

\* FileWatcher::new: an empty channel, the task at recv, the lock free; with
\* it the database file of the server and the number of change rows whose
\* write the notification source has reported
NoPipe ==
    [pending |-> None, queue |-> <<>>, sent |-> 0, cur |-> None, steps |-> <<>>,
     content |-> None, lock |-> None, handled |-> <<>>, skipped |-> {},
     db_path |-> DbPath(Root, None), reported |-> 0]

NoRollback == [run |-> FALSE, prior |-> FALSE, outcome |-> "none"]

InitFiles == [p \in AllFiles |-> IF p = "/r/b.txt" THEN None ELSE Some("x")]

Init ==
    /\ foreign_keys \in BOOLEAN
    /\ db = EmptyDb
    /\ running = {}
    /\ sdk_changes = None
    /\ fs = InitFiles
    /\ pre_commit = [c \in CommitIds |-> None]
    /\ base_fs = InitFiles
    /\ calls = {}
    /\ rb = NoRollback
    /\ batch = NoBatch
    /\ last_diff = NoDiff
    /\ writing = None
    /\ last_read = NoRead
    /\ pipe = NoPipe

\* Uuid::new_v4() for a session or a commit: no query orders rows by these
\* ids, so the model draws them lowest first
NewSessionIds == {x \in FreshSessionIds : \A y \in FreshSessionIds : x <= y}
NewCommitIds == {x \in FreshCommitIds : \A y \in FreshCommitIds : x <= y}

\* Uuid::new_v4() for a change, where the order of the change ids does not matter
NewChangeIds == {x \in FreshChangeIds : \A y \in FreshChangeIds : x <= y}

\* The store with its writers: servers started on the same database, their
\* pipelines, a library caller that ends sessions, the HTTP API and the CLI
Next ==
    \/ \E id \in NewSessionIds : ServerStart(id)
    \/ \E id \in SessionIds : EndSession(id)
    \/ \E id \in SessionIds, event \in Events, ids \in FreshIdSeqs(1) : WatcherEvent(id, event, ids)
    \/ \E req \in ChangeRequests, id \in FreshChangeIds : ApiCreateChange(req, id)
    \/ \E req \in CommitRequests, id \in NewCommitIds : ApiCreateCommit(req, id)
    \/ \E id \in NewCommitIds : CliCommit("work", "cli-user", id)

Spec == Init /\ [][Next]_vars

\* An SDK client and the CLI commit against servers that start and exit
NextSdk ==
    \/ \E id \in NewSessionIds : ServerStart(id)
    \/ \E id \in SessionIds : ServerExit(id)
    \/ \E req \in ChangeRequests, id \in FreshChangeIds : ApiCreateChange(req, id)
    \/ SdkCommitRead
    \/ \E id \in NewCommitIds : SdkCommitPost("done", "sdk-agent", id)
    \/ SdkCommitRefused
    \/ \E id \in NewCommitIds : CliCommit("work", "cli-user", id)

SpecSdk == Init /\ [][NextSdk]_vars

\* The writers of change rows, with every kind, content and path they can send
WideChangeRequests ==
    {[change_type |-> t, path |-> p, content_before |-> b, content_after |-> a, agent_id |-> g] :
        t \in {"create", "modify", "delete", "rename"}, p \in {"a.txt"},
        b \in {None, Some("x")}, a \in {None, Some("xy")}, g \in {None, Some("agent-1")}}

WideEvents ==
    {[kind |-> k, paths |-> <<p>>] : k \in {"Create", "Modify", "Remove"}, p \in AllFiles}

LibChanges ==
    {WithOldPath(WithMetadata(WithAgentId(WithContentAfter(
         ChangeNew(id, ChangeClock(db), "Rename", p, s), "x"), "lib-agent"), "tool", "mv"), o) :
        id \in NewChangeIds, p \in {"b.txt"}, o \in {"a.txt"}, s \in SessionIds}

NextChange ==
    \/ \E id \in NewSessionIds : ServerStart(id)
    \/ \E id \in SessionIds, event \in WideEvents, c \in NewChangeIds : WatcherEvent(id, event, <<c>>)
    \/ \E req \in WideChangeRequests, id \in NewChangeIds : ApiCreateChange(req, id)
    \/ \E change \in LibChanges : LibCreateChange(change)

SpecChange == Init /\ [][NextChange]_vars

\* One server, the files under its root written by an agent that announces its
\* writes, by a library caller and by programs that announce nothing, the CLI
\* commit and the CLI rollback
Contents == {"x", "y"}

InitRollback ==
    /\ foreign_keys \in BOOLEAN
    /\ db = CreateSession(EmptyDb, SessionNew(1, Root, SessionClock(EmptyDb))).db
    /\ running = {1}
    /\ sdk_changes = None
    /\ fs = InitFiles
    /\ pre_commit = [c \in CommitIds |-> None]
    /\ base_fs = InitFiles
    /\ calls = {}
    /\ rb = NoRollback
    /\ batch = NoBatch
    /\ last_diff = NoDiff
    /\ writing = None
    /\ last_read = NoRead
    /\ pipe = NoPipe

NextRollback ==
    \/ \E p \in RelPaths, c \in Contents, id \in FreshChangeIds : SdkFileCreated(p, c, id)
    \/ \E p \in RelPaths, c \in Contents, id \in FreshChangeIds : SdkFileModified(p, c, id)
    \/ \E p \in RelPaths, id \in FreshChangeIds : SdkFileDeleted(p, id)
    \/ \E o \in RelPaths, p \in RelPaths, id \in FreshChangeIds : LibFileRenamed(o, p, id)
    \/ \E id \in running, k \in {"Create", "Modify", "Remove"}, p \in FilePaths,
          c \in {None} \cup {Some(x) : x \in Contents}, ids \in FreshIdSeqs(1) :
            WatchedWrite(id, k, p, c, ids)
    \/ \E id \in NewCommitIds : CliCommit("work", "cli-user", id)
    \/ \E c \in CommitIds \cup {BadUuidText}, execute \in BOOLEAN, io \in [1..MaxChanges -> BOOLEAN] :
            CliRollback(c, execute, io)

SpecRollback == InitRollback /\ [][NextRollback]_vars

\* Servers and the batches their file watchers flush, on a store whose inserts
\* can fail
PipelinePaths ==
    {"/r/a.txt", "/r/src/main", "/r/src/targets.rs", "/r/.git/HEAD", "/r/target/debug/out"}

PipelineEvents(n) ==
    {[kind |-> k, paths |-> ps] :
        k \in {"Create", "Modify", "Remove", "Access"}, ps \in [1..n -> PipelinePaths]}

Batches ==
    {<<e>> : e \in PipelineEvents(1) \cup PipelineEvents(MaxBatchPaths)}
    \cup {<<e1, e2>> : e1 \in PipelineEvents(1), e2 \in PipelineEvents(1)}

\* The uuids of the changes of one batch, lowest first
BatchIds == [i \in 1..MaxBatchPaths |-> i]

NextPipeline ==
    \/ \E id \in NewSessionIds : ServerStart(id)
    \/ \E id \in SessionIds, events \in Batches, busy \in [1..MaxBatchPaths -> BOOLEAN] :
            WatcherBatch(id, events, BatchIds, busy)

SpecPipeline == Init /\ [][NextPipeline]_vars

\* ------------------------------------------- the store under two processes
\* The server and a CLI command each hold their own connection to the database
\* file.  No statement of the store opens a transaction, so each statement of
\* Storage::create_commit is committed by itself, and between two of them the
\* other process may run a whole operation of its own.  The handlers of one
\* server take turns on its storage lock.

\* state.storage.lock(): no handler of the server is inside create_commit
ServerLockFree == IF IsSome(writing) THEN Unwrap(writing).via # "api" ELSE TRUE

\* Storage::create_commit up to and including its INSERT INTO commits, in the
\* process via, for a commit its caller has built
CreateCommitBegin(via, commit) ==
    /\ ~IsSome(writing)
    /\ LET r == InsertCommitRow(db, commit)
       IN /\ db' = r.db
          /\ writing' = IF r.ok /\ commit.changes # <<>>
                        THEN Some([via |-> via, commit |-> commit, todo |-> commit.changes])
                        ELSE None
    /\ UNCHANGED <<pipe, last_read, last_diff, rb, batch, foreign_keys, running, sdk_changes, fs,
                   pre_commit, base_fs, calls>>

\* api.rs create_commit (POST /commits) up to the first statement of
\* Storage::create_commit
ApiCreateCommitBegin(req, id) ==
    /\ running # {}
    /\ id \in FreshCommitIds
    /\ LET s == GetActiveSession(db)
           change_ids == FilterMap([i \in 1..Len(req.change_ids) |->
                                       ParseUuid(req.change_ids[i])])
       IN /\ s.ok
          /\ CreateCommitBegin("api", CommitNew(id, CommitClock(db), req.message,
                                                req.agent_id, change_ids, s.val.id))

\* gitent commit (commands/commit.rs run) up to the first statement of
\* Storage::create_commit
CliCommitBegin(message, agent_id, id) ==
    /\ Len(db.sessions) > 0      \* db_path.exists()
    /\ id \in FreshCommitIds
    /\ LET s == GetActiveSession(db)
           changes == GetUncommittedChanges(db, s.val.id)
           change_ids == [i \in 1..Len(changes) |-> changes[i].id]
       IN /\ s.ok
          /\ changes # <<>>
          /\ CreateCommitBegin("cli", CommitNew(id, CommitClock(db), message, agent_id,
                                                change_ids, s.val.id))

\* The next INSERT INTO commit_changes of the create_commit that is under way;
\* a failed insert ends the call (the `?`), and so does the last one
CreateCommitNext ==
    /\ IsSome(writing)
    /\ LET w == Unwrap(writing)
           r == InsertMembershipRow(db, w.commit.id, Head(w.todo))
       IN /\ db' = r.db
          /\ writing' = IF r.ok /\ Tail(w.todo) # <<>>
                        THEN Some([w EXCEPT !.todo = Tail(w.todo)])
                        ELSE None
    /\ UNCHANGED <<pipe, last_read, last_diff, rb, batch, foreign_keys, running, sdk_changes, fs,
                   pre_commit, base_fs, calls>>

\* What a reader is given: the commits of the active session
ReadCommits(via) ==
    LET s == GetActiveSession(db)
    IN /\ s.ok
       /\ last_read' = [run |-> TRUE, via |-> via, writing |-> writing,
                        infos |-> GetCommitsForSession(db, s.val.id)]
       /\ UNCHANGED <<pipe, writing, last_diff, rb, batch, foreign_keys, db, running, sdk_changes,
                      fs, pre_commit, base_fs, calls>>

\* api.rs get_commits (GET /commits), under the storage lock of the server
ApiGetCommits ==
    /\ running # {}
    /\ ServerLockFree
    /\ ReadCommits("api")

\* gitent log (commands/log.rs run), on its own connection to the file
CliLog ==
    /\ Len(db.sessions) > 0      \* db_path.exists()
    /\ ReadCommits("cli")

\* A server, an agent posting changes and commits to it, and the CLI commit
\* and log commands run against the same database file
NextShared ==
    \/ \E id \in NewSessionIds : ~IsSome(writing) /\ Len(db.sessions) = 0 /\ ServerStart(id)
    \/ \E req \in ChangeRequests, id \in NewChangeIds : ServerLockFree /\ ApiCreateChange(req, id)
    \/ \E req \in CommitRequests, id \in NewCommitIds : ApiCreateCommitBegin(req, id)
    \/ \E id \in NewCommitIds : CliCommitBegin("work", "cli-user", id)
    \/ CreateCommitNext
    \/ ApiGetCommits
    \/ CliLog

SpecShared == Init /\ [][NextShared]_vars

\* ------------------------------------------------- callers of the library
\* A program that links gitent-core and calls Storage itself, next to a server
\* and the CLI commit that fill the store.

MaxLibCalls == 2

\* The library calls recorded so far
LibCalls == {c \in calls : c.via = "lib"}

\* Sessions a caller builds: Session::new, with the id of its choice, and
\* Session::end
LibSessions ==
    LET new == {[SessionNew(id, PathBufFrom("/q"), SessionClock(db))
                    EXCEPT !.ignore_patterns = <<".git">>] : id \in SessionIds}
    IN new \cup {SessionEnd(session, SessionClock(db)) : session \in new}

\* Storage::create_session(&session)
LibCreateSession(session) ==
    /\ Cardinality(LibCalls) < MaxLibCalls
    /\ LET r == CreateSession(db, session)
       IN /\ db' = r.db
          /\ calls' = calls \cup {[op |-> "create_session", via |-> "lib", ok |-> r.ok,
                                   err |-> IF r.ok THEN None ELSE Some(r.err),
                                   session |-> session,
                                   existed |-> session.id \in SessionRowIds(db),
                                   unchanged |-> r.db = db]}
    /\ UNCHANGED <<pipe, writing, last_read, last_diff, rb, batch, foreign_keys, running,
                   sdk_changes, fs, pre_commit, base_fs>>

\* Storage::get_session(&id), get_change(&id) or get_commit(&id)
LibGet(table, id) ==
    /\ Cardinality(LibCalls) < MaxLibCalls
    /\ LET r == CASE table = "sessions" -> GetSession(db, id)
                  [] table = "changes" -> GetChange(db, id)
                  [] table = "commits" -> GetCommit(db, id)
           rows == CASE table = "sessions" -> SessionRowIds(db)
                     [] table = "changes" -> ChangeRowIds(db)
                     [] table = "commits" -> CommitRowIds(db)
       IN /\ db' = r.db
          /\ calls' = calls \cup {[op |-> "get", via |-> "lib", ok |-> r.ok,
                                   err |-> IF r.ok THEN None ELSE Some(r.err),
                                   table |-> table, id |-> id,
                                   existed |-> id \in rows,
                                   unchanged |-> r.db = db]}
    /\ UNCHANGED <<pipe, writing, last_read, last_diff, rb, batch, foreign_keys, running,
                   sdk_changes, fs, pre_commit, base_fs>>

NextLibrary ==
    \/ \E id \in NewSessionIds : ServerStart(id)
    \/ \E id \in SessionIds : EndSession(id)
    \/ \E req \in ChangeRequests, id \in NewChangeIds : ApiCreateChange(req, id)
    \/ \E id \in NewCommitIds : CliCommit("work", "cli-user", id)
    \/ \E session \in LibSessions : LibCreateSession(session)
    \/ \E table \in {"sessions", "changes", "commits"}, id \in SessionIds \cup ChangeIds \cup CommitIds :
          LibGet(table, id)

SpecLibrary == Init /\ [][NextLibrary]_vars

\* ------------------------------------------ the watcher of a running server
\* FileWatcher::new makes a channel, a debouncer whose callback sends each
\* flushed result into the channel from the debouncer's own thread, and a task
\* that takes the results out one at a time.  The task and the handlers of the
\* API share the storage behind one Mutex.  Here every step of the task between
\* two points where another thread may run is a step of its own.

\* The capacity of the channel: 100 in the source, scaled down so that a full
\* channel is met
ChannelCapacity == 2

\* The number of results the debouncer flushes
MaxSent == 3

\* tx.blocking_send(result): the result is queued when the channel has room,
\* and the debouncer thread waits with it when it has none
BlockingSend(queue, result) ==
    IF Len(queue) < ChannelCapacity
    THEN [done |-> TRUE, queue |-> Append(queue, result)]
    ELSE [done |-> FALSE, queue |-> queue]

\* A variant of the steps below that takes the lock before it reads the file
PathStepsLockFirst(kind) ==
    CASE kind \in {"Create", "Modify"} -> <<"lock", "read", "create_change">>
      [] kind = "Remove" -> <<"lock", "create_change">>
      [] OTHER -> <<>>

\* What FileWatcher::handle_event does for one path that is not ignored, by
\* the kind of its event: std::fs::read, storage.lock(), and create_change
\* with the guard dropped at the end of the `if let`
PathSteps(kind) ==
    CASE kind \in {"Create", "Modify"} -> <<"read", "lock", "create_change">>
      [] kind = "Remove" -> <<"lock", "create_change">>
      [] OTHER -> <<>>

\* The create/modify/remove paths that are not ignored, in the results the
\* debouncer holds, the channel holds and the task is at, plus the change of a
\* handler of POST /changes that holds the lock: each needs a fresh uuid
Outstanding ==
    LET w == pipe.pending \o pipe.queue \o pipe.cur
    IN Cardinality({t \in (1..Len(w)) \X (1..MaxBatchPaths) \X (1..MaxBatchPaths) :
            /\ t[2] <= Len(w[t[1]].events)
            /\ t[3] <= Len(w[t[1]].events[t[2]].paths)
            /\ PathSteps(w[t[1]].events[t[2]].kind) # <<>>
            /\ ~ShouldIgnore(w[t[1]].events[t[2]].paths[t[3]], Root, DefaultIgnorePatterns)})
       + (IF pipe.lock = Some("api") THEN 1 ELSE 0)

\* The debouncer flushes a result and calls its callback with it
DebouncerFlush(result) ==
    /\ running # {}
    /\ pipe.pending = None
    /\ pipe.sent < MaxSent
    /\ LET sent == [n |-> pipe.sent + 1, ok |-> result.ok, events |-> result.events]
       IN /\ pipe' = [pipe EXCEPT !.pending = Some(sent), !.sent = @ + 1]
          /\ Outstanding' <= Cardinality(FreshChangeIds)
    /\ UNCHANGED <<writing, last_read, last_diff, rb, batch, foreign_keys, db, running, sdk_changes, fs, pre_commit, base_fs, calls>>

\* The callback's blocking_send returns
DebouncerSend ==
    /\ IsSome(pipe.pending)
    /\ LET r == BlockingSend(pipe.queue, Unwrap(pipe.pending))
       IN /\ r.done
          /\ pipe' = [pipe EXCEPT !.queue = r.queue, !.pending = None]
    /\ UNCHANGED <<writing, last_read, last_diff, rb, batch, foreign_keys, db, running, sdk_changes, fs, pre_commit, base_fs, calls>>

\* The task of FileWatcher::new at rx.recv().await: the next result leaves the
\* channel; an Err result is logged and the task is back at recv
PipelineRecv ==
    /\ pipe.cur = None
    /\ pipe.queue # <<>>
    /\ LET result == Head(pipe.queue)
       IN pipe' = [pipe EXCEPT !.queue = Tail(@),
                               !.handled = Append(@, result.n),
                               !.cur = IF result.ok
                                       THEN Some([n |-> result.n, events |-> result.events])
                                       ELSE None]
    /\ UNCHANGED <<writing, last_read, last_diff, rb, batch, foreign_keys, db, running, sdk_changes, fs, pre_commit, base_fs, calls>>

\* The task of the server of session sid goes one step on in the result it
\* took: the heads of the loops over the events and over event.paths with
\* should_ignore and the match on the kind, then for a path the steps of
\* PathSteps; busy tells whether a create_change of this step fails.  The `?`
\* on create_change leaves the rest of the event's paths out.
PipelineStep(sid, busy) ==
    /\ sid \in running
    /\ IsSome(pipe.cur)
    /\ LET cur == Unwrap(pipe.cur)
           session == GetSession(db, sid).val
           event == Head(cur.events)
           path == Head(event.paths)
           next_event == [pipe EXCEPT !.cur = Some([cur EXCEPT !.events = Tail(@)]),
                                      !.steps = <<>>, !.content = None]
           next_path == [pipe EXCEPT !.cur = Some([cur EXCEPT !.events[1].paths = Tail(@)]),
                                     !.steps = <<>>, !.content = None]
       IN IF cur.events = <<>>
          THEN pipe' = [pipe EXCEPT !.cur = None] /\ UNCHANGED <<db, calls>>
          ELSE IF event.paths = <<>>
          THEN pipe' = next_event /\ UNCHANGED <<db, calls>>
          ELSE IF pipe.steps = <<>>
          THEN /\ pipe' = IF \/ ShouldIgnore(path, session.root_path, session.ignore_patterns)
                             \/ PathSteps(event.kind) = <<>>
                          THEN next_path
                          ELSE [pipe EXCEPT !.steps = PathSteps(event.kind)]
               /\ UNCHANGED <<db, calls>>
          ELSE IF Head(pipe.steps) = "read"
          THEN /\ pipe' = [pipe EXCEPT !.content = Some(ReadFile(fs, path)), !.steps = Tail(@)]
               /\ UNCHANGED <<db, calls>>
          ELSE IF Head(pipe.steps) = "lock"
          THEN /\ pipe.lock = None
               /\ pipe' = [pipe EXCEPT !.lock = Some("pipeline"), !.steps = Tail(@)]
               /\ UNCHANGED <<db, calls>>
          ELSE /\ pipe.lock = Some("pipeline")
               /\ \E id \in NewChangeIds :
                    LET read == IF IsSome(pipe.content) THEN (path :> Unwrap(pipe.content))
                                ELSE (path :> None)
                        change == Unwrap(EventChange(read, event.kind, path, id,
                                                     ChangeClock(db), sid))
                        r == TryCreateChange(db, change, busy)
                        rest == Tail(event.paths)
                        left == {[n |-> cur.n, path |-> rest[i]] :
                                    i \in {k \in 1..Len(rest) :
                                        ~ShouldIgnore(rest[k], session.root_path,
                                                      session.ignore_patterns)}}
                    IN /\ db' = r.db
                       /\ calls' = calls \cup
                            {[op |-> "create_change", via |-> "watcher", ok |-> r.ok,
                              change |-> change,
                              session_exists |-> sid \in SessionRowIds(db)]}
                       /\ pipe' = IF r.ok
                                  THEN [next_path EXCEPT !.lock = None]
                                  ELSE [next_event EXCEPT !.lock = None,
                                                          !.skipped = @ \cup left]
    /\ UNCHANGED <<writing, last_read, last_diff, rb, batch, foreign_keys, running, sdk_changes, fs, pre_commit, base_fs>>

\* A handler of the API at `state.storage.lock().unwrap()`
ApiLock ==
    /\ running # {}
    /\ pipe.lock = None
    /\ pipe' = [pipe EXCEPT !.lock = Some("api")]
    /\ Outstanding' <= Cardinality(FreshChangeIds)
    /\ UNCHANGED <<writing, last_read, last_diff, rb, batch, foreign_keys, db, running, sdk_changes, fs, pre_commit, base_fs, calls>>

\* The rest of api.rs create_change, the guard being dropped at its return
LockedCreateChange(req, id) ==
    /\ pipe.lock = Some("api")
    /\ HandleCreateChange(req, id)
    /\ pipe' = [pipe EXCEPT !.lock = None]
    /\ UNCHANGED <<writing, last_read, last_diff, rb, batch, foreign_keys, running, sdk_changes, fs, pre_commit, base_fs>>

\* One server, what its debouncer flushes, its task and a client of POST /changes
NextTask ==
    \/ \E result \in {[ok |-> TRUE, events |-> <<[kind |-> "Create", paths |-> <<"/r/a.txt">>]>>],
                      [ok |-> TRUE, events |-> <<[kind |-> "Modify",
                                                  paths |-> <<"/r/b.txt", "/r/a.txt">>]>>],
                      [ok |-> TRUE, events |-> <<[kind |-> "Remove", paths |-> <<"/r/.git/HEAD">>],
                                                 [kind |-> "Access", paths |-> <<"/r/a.txt">>]>>],
                      [ok |-> FALSE, events |-> <<>>]} : DebouncerFlush(result)
    \/ DebouncerSend
    \/ PipelineRecv
    \/ \E sid \in SessionIds, busy \in BOOLEAN : PipelineStep(sid, busy)
    \/ ApiLock
    \/ \E req \in {r \in ChangeRequests : r.change_type = "create"}, id \in NewChangeIds :
            LockedCreateChange(req, id)

SpecTask == InitRollback /\ [][NextTask]_vars

\* The same, where every thread that can go on does so in the end: the
\* debouncer thread in blocking_send, the task of the watcher, and a handler
\* that holds the lock
SpecTaskFair ==
    /\ SpecTask
    /\ WF_vars(DebouncerSend)
    /\ WF_vars(PipelineRecv)
    /\ WF_vars(\E sid \in SessionIds, busy \in BOOLEAN : PipelineStep(sid, busy))
    /\ WF_vars(\E req \in ChangeRequests, id \in NewChangeIds : LockedCreateChange(req, id))

\* ------------------------------------------- the database file of a server
\* gitent start with the database at its default place, at a --db path in the
\* watched tree and at a --db path outside of it.  SQLite writes the file with
\* every row it stores, and the watch on the root is recursive.

InitStart ==
    /\ foreign_keys \in BOOLEAN
    /\ db = CreateSession(EmptyDb, SessionNew(1, Root, SessionClock(EmptyDb))).db
    /\ running = {1}
    /\ sdk_changes = None
    /\ \E opt \in {None, Some("/r/g.db"), Some("/q/g.db")} :
          /\ pipe = [NoPipe EXCEPT !.db_path = DbPath(Root, opt)]
          /\ fs = (DbPath(Root, opt) :> Some("sqlite")) @@ InitFiles
    /\ pre_commit = [c \in CommitIds |-> None]
    /\ base_fs = InitFiles
    /\ calls = {}
    /\ rb = NoRollback
    /\ batch = NoBatch
    /\ last_diff = NoDiff
    /\ writing = None
    /\ last_read = NoRead

\* The debouncer flushes the event of a write to the database file: the file
\* is below the watched root and a change row was stored since the last such
\* event
DebouncerFlushDb ==
    /\ running # {}
    /\ StripPrefixOr(pipe.db_path, Root) # pipe.db_path
    /\ pipe.reported < Len(db.changes)
    /\ pipe.pending = None
    /\ pipe.sent < MaxSent
    /\ LET sent == [n |-> pipe.sent + 1, ok |-> TRUE,
                    events |-> <<[kind |-> "Modify", paths |-> <<pipe.db_path>>]>>]
       IN /\ pipe' = [pipe EXCEPT !.pending = Some(sent), !.sent = @ + 1,
                                  !.reported = Len(db.changes)]
          /\ Outstanding' <= Cardinality(FreshChangeIds)
    /\ UNCHANGED <<writing, last_read, last_diff, rb, batch, foreign_keys, db, running, sdk_changes, fs, pre_commit, base_fs, calls>>

NextStart ==
    \/ DebouncerFlush([ok |-> TRUE, events |-> <<[kind |-> "Create", paths |-> <<"/r/a.txt">>]>>])
    \/ DebouncerFlushDb
    \/ DebouncerSend
    \/ PipelineRecv
    \/ \E sid \in SessionIds, busy \in BOOLEAN : PipelineStep(sid, busy)
    \/ ApiLock
    \/ \E req \in {r \in ChangeRequests : r.change_type = "create"}, id \in NewChangeIds :
            LockedCreateChange(req, id)

SpecStart == InitStart /\ [][NextStart]_vars

\* ------------------------------------------------------------- the differ
\* The library's FileDiff, applied to changes whose contents are texts of a few
\* lines, with and without a last newline, and contents that are not UTF-8.

MaxDiffLines == 3
MaxContext == 2
MaxDiffs == 1

\* Up to MaxDiffLines lines, each "a" or "b", followed by nothing, by a line
\* with no newline, or by a byte that is not UTF-8
DiffContents ==
    {JoinLines(ls) \o t : ls \in SeqsUpTo({"a\n", "b\n"}, MaxDiffLines),
                          t \in {"", "a", InvalidByte}}

DiffChanges ==
    {WithOptAfter(WithOptBefore(ChangeNew(1, 1, "Modify", PathBufFrom(p), 1), b), a) :
        p \in {"a.txt"},
        b \in {None} \cup {Some(c) : c \in DiffContents},
        a \in {None} \cup {Some(c) : c \in DiffContents}}

\* FileDiff::from_change(&change)
FileDiffFromChange(change) ==
    /\ last_diff.n < MaxDiffs
    /\ last_diff' = [run |-> TRUE, formatted |-> FALSE, n |-> last_diff.n + 1,
                     change |-> change, result |-> FromChange(change)]
    /\ UNCHANGED <<pipe, writing, last_read, rb, batch, foreign_keys, db, running, sdk_changes,
                   fs, pre_commit, base_fs, calls>>

\* diff.format_unified(context_lines), diff being the value from_change
\* returned, in a build with or without overflow checks
FileDiffFormatUnified(context_lines, overflow_checks) ==
    /\ last_diff.run /\ ~last_diff.formatted /\ last_diff.result.ok
    /\ LET output == FormatUnified(last_diff.result.val, context_lines, overflow_checks)
       IN last_diff' = [run |-> TRUE, formatted |-> TRUE, n |-> last_diff.n,
                        change |-> last_diff.change,
                        result |-> last_diff.result, context_lines |-> context_lines,
                        overflow_checks |-> overflow_checks,
                        returned |-> \A k \in 1..Len(output) : output[k].fmt # "panicked",
                        output |-> output]
    /\ UNCHANGED <<pipe, writing, last_read, rb, batch, foreign_keys, db, running, sdk_changes,
                   fs, pre_commit, base_fs, calls>>

NextDiff ==
    \/ \E change \in DiffChanges : FileDiffFromChange(change)
    \/ \E context_lines \in (0..MaxContext) \cup {UsizeMax}, overflow_checks \in BOOLEAN :
            FileDiffFormatUnified(context_lines, overflow_checks)

SpecDiff == Init /\ [][NextDiff]_vars

\* ------------------------------------------------------------------ claims

CommitCalls == {c \in calls : c.op = "create_commit"}
ChangeCalls == {c \in calls : c.op = "create_change"}

Distinct(q) == \A i, j \in 1..Len(q) : i # j => q[i] # q[j]

ActiveRows == {i \in 1..Len(db.sessions) : db.sessions[i].active = 1}

CommittedIds == {m.change_id : m \in db.commit_changes}

\* C1: in every reachable state of a store at most one session row has
\* active = true.
C1_AtMostOneActiveSession == Cardinality(ActiveRows) <= 1

\* C2: get_uncommitted_changes(s) returns exactly the changes of session s
\* whose id is in no membership row, each once; and no id that a successful
\* create_commit listed is returned by any later call.
C2_UncommittedIsExact ==
    \A s \in SessionIds :
        LET got == GetUncommittedChanges(db, s)
            ids == {got[i].id : i \in 1..Len(got)}
        IN /\ ids = {db.changes[i].id : i \in {k \in 1..Len(db.changes) :
                        /\ db.changes[k].session_id = s
                        /\ db.changes[k].id \notin CommittedIds}}
           /\ Distinct([i \in 1..Len(got) |-> got[i].id])
           /\ \A c \in CommitCalls : c.ok => Range(c.commit.changes) \cap ids = {}

\* C2 witness: after a successful create_commit over a change of its session,
\* that session still has an uncommitted change.
C2_Witness ==
    \E c \in CommitCalls :
        /\ c.ok /\ c.commit.changes # <<>>
        /\ \E i \in 1..Len(db.changes) :
              /\ db.changes[i].id \in Range(c.commit.changes)
              /\ db.changes[i].session_id = c.commit.session_id
        /\ GetUncommittedChanges(db, c.commit.session_id) # <<>>

\* C3: create_commit is atomic: a call that returned an error left neither
\* the commit row nor a membership row of that commit, and a call that
\* succeeded left the commit row and one membership row per listed id.
C3_CreateCommitAtomic ==
    \A c \in CommitCalls :
        IF c.ok
        THEN /\ c.commit.id \in CommitRowIds(db)
             /\ \A x \in Range(c.commit.changes) :
                    [commit_id |-> c.commit.id, change_id |-> x] \in db.commit_changes
        ELSE /\ c.commit.id \notin CommitRowIds(db)
             /\ \A m \in db.commit_changes : m.commit_id # c.commit.id

\* C4: every change id appears in the membership rows of at most one commit.
C4_ChangeInAtMostOneCommit ==
    \A x \in ChangeIds : Cardinality({m \in db.commit_changes : m.change_id = x}) <= 1

\* C5: every membership row of a persisted commit refers to an existing change
\* row whose session_id is the commit's session_id.  (Stated for a build that
\* enforces foreign keys, where a membership row always has its change row.)
C5_MembersOfSameSession ==
    foreign_keys =>
        \A m \in db.commit_changes :
            \E i \in 1..Len(db.changes), j \in 1..Len(db.commits) :
                /\ db.changes[i].id = m.change_id
                /\ db.commits[j].id = m.commit_id
                /\ db.changes[i].session_id = db.commits[j].session_id

\* A change carries the content needed to undo it
CarriesContent(change) ==
    CASE change.change_type = "Create" -> TRUE
      [] change.change_type = "Modify" -> IsSome(change.content_before)
      [] change.change_type = "Delete" -> IsSome(change.content_before)
      [] change.change_type = "Rename" -> IsSome(change.old_path)

\* The paths a change affects, under the root
AffectedPaths(change) ==
    {Join(Root, change.path)} \cup
    (IF IsSome(change.old_path) THEN {Join(Root, Unwrap(change.old_path))} ELSE {})

\* C6: an executed rollback of the latest commit, run on the files as the
\* commit left them and before any other rollback, whose changes all carry the
\* content needed to undo them and whose steps all succeeded, leaves every
\* affected path as it was before the first change of that commit.
C6_RollbackRestores ==
    (/\ rb.run /\ rb.outcome = "done" /\ rb.clean /\ ~rb.prior
     /\ \A i \in 1..Len(rb.steps) : rb.steps[i].ok /\ CarriesContent(rb.steps[i].change)) =>
        \A i \in 1..Len(rb.steps) : \A q \in AffectedPaths(rb.steps[i].change) :
            rb.steps[Len(rb.steps)].after[q] = Unwrap(pre_commit[rb.commit_id])[q]

WantedCalls ==
    SelectSeq(BatchPaths(batch.events), LAMBDA e :
        /\ e.kind \in {"Create", "Modify", "Remove"}
        /\ e.path \notin batch.discarded)

\* C11: in every batch each non-ignored create/modify/remove path gets its
\* create_change call, also after a call of the batch has failed.
C11_BatchGoesOn ==
    batch.run =>
        /\ Len(batch.tried) = Len(WantedCalls)
        /\ \A i \in 1..Len(batch.tried) : batch.tried[i].change.path = WantedCalls[i].path

\* pattern is a substring of text
IsSubstring(pattern, text) ==
    \E i \in 1..(Len(text) + 1), j \in 0..Len(text) : SubSeq(text, i, j) = pattern

\* path relative to root, for a path below root
RelativeTo(path, root) == SubSeq(path, Len(root) + 2, Len(path))

\* C12: a notified path is discarded exactly when some ignore pattern of the
\* session is a substring of the path relative to the root, and the pipeline
\* makes no create_change call, hence stores no change, for such a path.
C12_IgnoreIsSubstring ==
    batch.run =>
        LET matches(path) ==
                \E k \in 1..Len(batch.ignore_patterns) :
                    IsSubstring(batch.ignore_patterns[k], RelativeTo(path, batch.root_path))
            met == BatchPaths(batch.events)
        IN /\ \A i \in 1..Len(met) : met[i].path \in batch.discarded <=> matches(met[i].path)
           /\ \A i \in 1..Len(batch.tried) : ~matches(batch.tried[i].change.path)
           /\ \A i \in 1..Len(db.changes) : ~matches(db.changes[i].path)

\* C12 witness: a batch of two paths, one discarded (R/src/targets.rs, for the
\* substring target, or R/.git/HEAD) and one kept (R/src/main), for which a
\* change was stored.
C12_Witness ==
    /\ batch.run
    /\ batch.discarded \in {{"/r/src/targets.rs"}, {"/r/.git/HEAD"}}
    /\ \E i \in 1..Len(batch.tried) :
          batch.tried[i].ok /\ batch.tried[i].change.path = "/r/src/main"
    /\ \E i \in 1..Len(db.changes) : db.changes[i].path = "/r/src/main"

\* The changes of a commit that get_change finds, in the order get_commit lists them
ResolvedChanges(commit_id) ==
    LET ids == GetChangesForCommit(db, commit_id)
    IN FilterMap([i \in 1..Len(ids) |->
           IF GetChange(db, ids[i]).ok THEN Some(GetChange(db, ids[i]).val) ELSE None])

\* C13: a rollback in execute mode that reaches its loop makes one step for
\* every resolved change of the commit, in their order and whatever the result
\* of the earlier steps, and ends with success count + number of reported
\* errors = number of changes.
C13_RollbackAttemptsAll ==
    (rb.run /\ rb.outcome = "done") =>
        LET changes == ResolvedChanges(rb.commit_id)
        IN /\ Len(rb.steps) = Len(changes)
           /\ \A i \in 1..Len(changes) : rb.steps[i].change = changes[i]
           /\ rb.success_count = Cardinality({i \in 1..Len(rb.steps) : rb.steps[i].ok})
           /\ rb.errors = Cardinality({i \in 1..Len(rb.steps) : ~rb.steps[i].ok})
           /\ rb.success_count + rb.errors = Len(changes)

\* C13 witness: a rollback of two changes whose first step failed and whose
\* second step succeeded and changed a file.
C13_Witness ==
    /\ rb.run /\ rb.outcome = "done" /\ Len(rb.steps) = 2
    /\ ~rb.steps[1].ok
    /\ rb.steps[2].ok /\ rb.steps[2].after # rb.steps[2].before
    /\ rb.success_count = 1 /\ rb.errors = 1

\* C14: a rollback with execute = false leaves the files and the store as they
\* were, for every commit id it is given.
C14_PreviewChangesNothing ==
    [][(rb' # rb /\ ~rb'.execute) => (fs' = fs /\ db' = db)]_vars

\* C14 witness: a preview of a commit with changes that a rollback in execute
\* mode would undo (the files are as the commit left them).
C14_Witness ==
    /\ rb.run /\ ~rb.execute /\ rb.outcome = "preview" /\ rb.clean
    /\ fs # Unwrap(pre_commit[rb.commit_id])

\* C15: get_active_session returns one session, an active one of the store,
\* whenever the store holds an active session, and fails with NoActiveSession
\* exactly when it holds none.
C15_ActiveSessionOrNone ==
    LET r == GetActiveSession(db)
    IN /\ ActiveRows # {} =>
            /\ r.ok
            /\ r.val.active
            /\ \E i \in ActiveRows : SessionFromRow(db.sessions[i]) = r.val
       /\ ActiveRows = {} <=> ~r.ok
       /\ ~r.ok => r.err = <<"NoActiveSession">>

\* C15 witness: a second session was created while one was active, the first
\* has been ended since, and get_active_session returns the second.
C15_Witness ==
    /\ Len(db.sessions) = 2
    /\ ActiveRows = {2}
    /\ GetActiveSession(db).ok
    /\ GetActiveSession(db).val.id = db.sessions[2].id

\* C16: the session_id of every change row is the id of a session row, and a
\* create_change that names a session with no row fails and stores nothing.
C16_ChangeSessionExists ==
    /\ \A i \in 1..Len(db.changes) : db.changes[i].session_id \in SessionRowIds(db)
    /\ \A c \in ChangeCalls :
          (c.via = "lib" /\ ~c.session_exists) => (~c.ok /\ ~c.stored)

\* C17: no step alters or removes a change row or a commit row that is there:
\* get_change and get_commit of its id return after the step what they returned
\* before it, membership included, and every session row stays.
C17_RowsAreImmutable ==
    [][/\ \A id \in ChangeRowIds(db) :
             GetChange(db', id).ok /\ GetChange(db', id).val = GetChange(db, id).val
       /\ \A id \in CommitRowIds(db) :
             GetCommit(db', id).ok /\ GetCommit(db', id).val = GetCommit(db, id).val
       /\ SessionRowIds(db) \subseteq SessionRowIds(db')
       /\ Len(db'.sessions) >= Len(db.sessions)]_vars

\* C17 witness: two commits and two changes are in the store, the first commit
\* holding a change, and a session has been ended by update_session.
C17_Witness ==
    /\ Len(db.commits) = 2 /\ Len(db.changes) = 2
    /\ GetCommit(db, db.commits[1].id).val.changes # <<>>
    /\ \E i \in 1..Len(db.sessions) : db.sessions[i].active = 0

\* A content that is there and is UTF-8 text
IsText(content) == IsSome(content) /\ ~IsSubstring(InvalidByte, Unwrap(content))

\* The old side and the new side of an edit script: its lines other than the
\* additions, and its lines other than the deletions
OldSide(diff_lines) == SelectSeq(diff_lines, LAMBDA l : l.line_type # "Addition")
NewSide(diff_lines) == SelectSeq(diff_lines, LAMBDA l : l.line_type # "Deletion")

\* The text a side of an edit script spells
SideText(side) == JoinLines([i \in 1..Len(side) |-> side[i].content])

\* A text, closed by a newline if it has lines and its last one has none
Closed(text) ==
    IF text = "" \/ SubSeq(text, Len(text), Len(text)) = "\n" THEN text ELSE text \o "\n"

\* C18: from_change returns Ok for every change; its diff_lines is empty when
\* content_before or content_after is absent or is not UTF-8, and when both are
\* text it is the computed edit script, whose old side spells content_before
\* and whose new side spells content_after, line numbers counting from 1.
C18_FromChangeNeverFails ==
    last_diff.run =>
        LET c == last_diff.change
            r == last_diff.result
        IN /\ r.ok
           /\ IF IsText(c.content_before) /\ IsText(c.content_after)
              THEN LET lines == r.val.diff_lines
                       old == OldSide(lines)
                       new == NewSide(lines)
                   IN /\ lines = ComputeDiff(Unwrap(c.content_before), Unwrap(c.content_after))
                      /\ SideText(old) = Closed(Unwrap(c.content_before))
                      /\ SideText(new) = Closed(Unwrap(c.content_after))
                      /\ \A i \in 1..Len(old) : old[i].old_line_number = Some(i)
                      /\ \A i \in 1..Len(new) : new[i].new_line_number = Some(i)
              ELSE r.val.diff_lines = <<>>

\* C18 witness: from_change has returned Ok with no diff lines for a change
\* whose content_before is a text of two lines and whose content_after is not
\* UTF-8.
C18_Witness ==
    /\ last_diff.run
    /\ last_diff.change.content_before = Some("a\nb\n")
    /\ last_diff.change.content_after = Some("a\n" \o InvalidByte)
    /\ last_diff.result.ok
    /\ last_diff.result.val.diff_lines = <<>>

\* The pieces of a unified output that are hunk headers
HunkHeaders(output) == {k \in 1..Len(output) : output[k].fmt = "@@ -{},{} +{},{} @@\n"}

\* C19: the diff of a change whose content_before and content_after are the
\* same content A has Context lines only, one for each line of A if A is text,
\* and its unified format, whatever context_lines is, has the two file lines and
\* no hunk.
C19_SelfDiffHasNoHunk ==
    (/\ last_diff.run
     /\ IsSome(last_diff.change.content_before)
     /\ last_diff.change.content_after = last_diff.change.content_before) =>
        LET lines == last_diff.result.val.diff_lines
        IN /\ \A i \in 1..Len(lines) : lines[i].line_type = "Context"
           /\ IsText(last_diff.change.content_before) =>
                  Len(lines) = Len(SplitLines(Unwrap(last_diff.change.content_before)))
           /\ last_diff.formatted =>
                  /\ HunkHeaders(last_diff.output) = {}
                  /\ Len(last_diff.output) = 2

\* C19 witness: a text of three lines has been diffed against itself, and the
\* diff formatted with one line of context.
C19_Witness ==
    /\ last_diff.run /\ last_diff.formatted
    /\ last_diff.change.content_before = Some("a\nb\na\n")
    /\ last_diff.change.content_after = Some("a\nb\na\n")
    /\ last_diff.context_lines = 1
    /\ Len(last_diff.result.val.diff_lines) = 3

\* The line a diff line is in a hunk body
BodyLine(line) ==
    (CASE line.line_type = "Addition" -> "+"
       [] line.line_type = "Deletion" -> "-"
       [] line.line_type = "Context" -> " ") \o line.content

\* The old and the new line number at which the j-th line of an edit script
\* sits: one more than the lines before it that the old (new) text has
OldPos(lines, j) == 1 + Cardinality({i \in 1..(j - 1) : lines[i].line_type # "Addition"})
NewPos(lines, j) == 1 + Cardinality({i \in 1..(j - 1) : lines[i].line_type # "Deletion"})

\* C20: in the unified format of a diff, every hunk header matches the body
\* that follows it: its old count is the number of body lines that are context
\* or deletion, its new count the number that are context or addition, and its
\* old and new start are the line numbers at which the first body line sits.
C20_HeaderMatchesBody ==
    (last_diff.run /\ last_diff.formatted) =>
        \A k \in HunkHeaders(last_diff.output) :
            LET header == last_diff.output[k].args
                body == SplitLines(last_diff.output[k + 1].args[1])
                lines == last_diff.result.val.diff_lines
                count(prefixes) ==
                    Cardinality({i \in 1..Len(body) : SubSeq(body[i], 1, 1) \in prefixes})
            IN /\ header[2] = count({" ", "-"})
               /\ header[4] = count({" ", "+"})
               /\ \E j \in 1..(Len(lines) - Len(body) + 1) :
                     /\ \A i \in 1..Len(body) : body[i] = BodyLine(lines[j + i - 1])
                     /\ header[1] = OldPos(lines, j)
                     /\ header[3] = NewPos(lines, j)

\* C21: every hunk of the unified format is a run of diff lines in which every
\* Context line is within context_lines lines of an Addition or a Deletion: it
\* starts with the Context lines, context_lines of them or as many as there
\* are, that come right before its first changed line, and it ends with at most
\* context_lines Context lines after its last changed line.
C21_HunkIsPaddedRun ==
    (last_diff.run /\ last_diff.formatted) =>
        \A k \in HunkHeaders(last_diff.output) :
            LET body == SplitLines(last_diff.output[k + 1].args[1])
                lines == last_diff.result.val.diff_lines
                c == last_diff.context_lines
                changed(i) == lines[i].line_type # "Context"
            IN \E j \in 1..(Len(lines) - Len(body) + 1) :
                 LET last == j + Len(body) - 1
                     inner == {i \in j..last : changed(i)}
                     first_changed == CHOOSE i \in inner : \A x \in inner : i <= x
                     last_changed == CHOOSE i \in inner : \A x \in inner : i >= x
                     before == {n \in 0..(first_changed - 1) :
                                   \A i \in (first_changed - n)..(first_changed - 1) :
                                       ~changed(i)}
                     available == CHOOSE n \in before : \A x \in before : n >= x
                 IN /\ \A i \in 1..Len(body) : body[i] = BodyLine(lines[j + i - 1])
                    /\ inner # {}
                    /\ first_changed - j = (IF c <= available THEN c ELSE available)
                    /\ last - last_changed <= c
                    /\ \A i \in j..last :
                          ~changed(i) =>
                              \E x \in 1..Len(lines) :
                                  changed(x) /\ x - i <= c /\ i - x <= c

\* C22: in the edit script of two texts, a Context line carries an old and a
\* new number, a Deletion an old number only, an Addition a new number only;
\* the old numbers, read in order, are 1, 2, ... up to the number of lines of the
\* old text, and the new numbers 1, 2, ... up to the number of lines of the new.
C22_LineNumbersConsistent ==
    (/\ last_diff.run
     /\ IsText(last_diff.change.content_before)
     /\ IsText(last_diff.change.content_after)) =>
        LET lines == last_diff.result.val.diff_lines
            old == OldSide(lines)
            new == NewSide(lines)
        IN /\ \A i \in 1..Len(lines) :
                 /\ IsSome(lines[i].old_line_number) <=> lines[i].line_type # "Addition"
                 /\ IsSome(lines[i].new_line_number) <=> lines[i].line_type # "Deletion"
           /\ Len(old) = Len(SplitLines(Unwrap(last_diff.change.content_before)))
           /\ Len(new) = Len(SplitLines(Unwrap(last_diff.change.content_after)))
           /\ \A i \in 1..Len(old) : Unwrap(old[i].old_line_number) = i
           /\ \A i \in 1..Len(new) : Unwrap(new[i].new_line_number) = i

\* C22 witness: an edit script of two texts that has a Context line followed by
\* a Deletion and an Addition.
C22_Witness ==
    /\ last_diff.run
    /\ IsText(last_diff.change.content_before)
    /\ IsText(last_diff.change.content_after)
    /\ LET lines == last_diff.result.val.diff_lines
       IN \E i, j, k \in 1..Len(lines) :
             /\ i < j /\ j < k
             /\ lines[i].line_type = "Context"
             /\ lines[j].line_type = "Deletion"
             /\ lines[k].line_type = "Addition"

\* C23: get_commits_for_session answers with one CommitInfo for every commit
\* row of the session, also when a membership row of a commit names a change
\* that is not in the store: the id stays in the commit's list, no path is
\* reported for it, and change_count is the number of listed ids that get_change
\* finds.
C23_UnresolvedIdsLeftOut ==
    \A s \in SessionIds :
        LET infos == GetCommitsForSession(db, s)
        IN /\ {infos[k].commit.id : k \in 1..Len(infos)} =
                  {db.commits[i].id : i \in {j \in 1..Len(db.commits) :
                                                db.commits[j].session_id = s}}
           /\ \A k \in 1..Len(infos) :
                 LET listed == infos[k].commit.changes
                     resolved == {i \in 1..Len(listed) : GetChange(db, listed[i]).ok}
                 IN /\ Range(listed) = {m.change_id : m \in
                           {r \in db.commit_changes : r.commit_id = infos[k].commit.id}}
                    /\ infos[k].change_count = Cardinality(resolved)
                    /\ Len(infos[k].files_affected) = Cardinality(resolved)

\* C23 witness: a commit of a session lists two change ids of which one is in
\* the store and the other is not, and its CommitInfo counts one change.
C23_Witness ==
    \E s \in SessionIds :
        LET infos == GetCommitsForSession(db, s)
        IN \E k \in 1..Len(infos) :
              /\ Len(infos[k].commit.changes) = 2
              /\ infos[k].change_count = 1

\* C24: a reader that is given the commit of a create_commit call is given it
\* with every change id of that call, also when the call is still between two
\* of its statements in another process.
C24_CommitSeenWhole ==
    (last_read.run /\ IsSome(last_read.writing)) =>
        LET w == Unwrap(last_read.writing)
        IN \A k \in 1..Len(last_read.infos) :
              last_read.infos[k].commit.id = w.commit.id =>
                  Range(w.commit.changes) \subseteq Range(last_read.infos[k].commit.changes)

\* C25: create_session with a session whose id is in the store fails on the
\* uniqueness of the id and leaves every table as it was, the row of that id
\* included.
C25_DuplicateSessionRefused ==
    \A c \in LibCalls :
        (c.op = "create_session" /\ c.existed) =>
            /\ ~c.ok
            /\ c.err = Some(<<"Database", "UNIQUE constraint failed: sessions.id">>)
            /\ c.unchanged

\* C25 witness: create_session was called with an ended session of another
\* root path and other ignore patterns that has the id of a stored session that
\* is active.
C25_Witness ==
    \E c \in LibCalls :
        /\ c.op = "create_session" /\ c.existed
        /\ ~c.session.active
        /\ \E i \in 1..Len(db.sessions) :
              /\ db.sessions[i].id = c.session.id
              /\ db.sessions[i].active = 1
              /\ db.sessions[i].root_path # ToStringLossy(c.session.root_path)
              /\ db.sessions[i].ignore_patterns # c.session.ignore_patterns

\* C26: get_session, get_change and get_commit of an id that has no row in
\* their table fail with SessionNotFound, ChangeNotFound and CommitNotFound,
\* each carrying that id, and leave every table as it was.
C26_NotFoundCarriesId ==
    \A c \in LibCalls :
        (c.op = "get" /\ ~c.existed) =>
            /\ ~c.ok
            /\ c.unchanged
            /\ c.err = Some(<<CASE c.table = "sessions" -> "SessionNotFound"
                                [] c.table = "changes" -> "ChangeNotFound"
                                [] c.table = "commits" -> "CommitNotFound",
                              c.id>>)

\* C26 witness: get_commit has failed for an id with no commit row while the
\* same id has a change row, and get_change of it has succeeded.
C26_Witness ==
    \E c, f \in LibCalls :
        /\ c.op = "get" /\ c.table = "commits" /\ ~c.existed /\ ~c.ok
        /\ f.op = "get" /\ f.table = "changes" /\ f.id = c.id /\ f.ok

\* C27: a session whose workspace is no longer tracked, its server having
\* exited, is not active in the store: every session row with active = 1 is the
\* session of a running server, and every row with active = 0 has an end
\* timestamp.
C27_UntrackedSessionEnded ==
    \A i \in 1..Len(db.sessions) :
        /\ db.sessions[i].active = 1 => db.sessions[i].id \in running
        /\ db.sessions[i].active = 0 => IsSome(db.sessions[i].ended)

\* C28: POST /changes answers with the change it has stored: get_change of its
\* id gives the kind, path, contents, hashes and agent id of the request and
\* the id of the active session; with no active session, or with a kind other
\* than create, modify, delete and rename, it stores nothing.
C28_SubmitReturnsPersisted ==
    [][\A req \in ChangeRequests, id \in NewChangeIds :
          ApiCreateChange(req, id) =>
              IF /\ GetActiveSession(db).ok
                 /\ req.change_type \in {"create", "modify", "delete", "rename"}
              THEN \E c \in calls' \ calls :
                     LET got == GetChange(db', id)
                         hash(content) == IF IsSome(content)
                                          THEN Some(HashContent(Unwrap(content)))
                                          ELSE None
                     IN /\ c.op = "create_change" /\ c.via = "api" /\ c.ok
                        /\ c.change.id = id
                        /\ Len(db'.changes) = Len(db.changes) + 1
                        /\ got.ok
                        /\ got.val.change_type = c.change.change_type
                        /\ got.val.change_type =
                               (CASE req.change_type = "create" -> "Create"
                                  [] req.change_type = "modify" -> "Modify"
                                  [] req.change_type = "delete" -> "Delete"
                                  [] req.change_type = "rename" -> "Rename")
                        /\ got.val.path = c.change.path
                        /\ got.val.path = req.path
                        /\ got.val.content_before = c.change.content_before
                        /\ got.val.content_before = req.content_before
                        /\ got.val.content_after = c.change.content_after
                        /\ got.val.content_after = req.content_after
                        /\ got.val.content_hash_before = c.change.content_hash_before
                        /\ got.val.content_hash_before = hash(req.content_before)
                        /\ got.val.content_hash_after = c.change.content_hash_after
                        /\ got.val.content_hash_after = hash(req.content_after)
                        /\ got.val.agent_id = c.change.agent_id
                        /\ got.val.agent_id = req.agent_id
                        /\ got.val.session_id = c.change.session_id
                        /\ got.val.session_id = GetActiveSession(db).val.id
              ELSE db' = db /\ calls' = calls]_vars

\* C28 witness: a change posted with content_after and an agent id is stored,
\* and a server is running whose store has no active session any more.
C28_Witness ==
    /\ \E c \in ChangeCalls :
          /\ c.via = "api" /\ c.ok
          /\ IsSome(c.change.content_after) /\ IsSome(c.change.agent_id)
          /\ GetChange(db, c.change.id).ok
    /\ running # {}
    /\ ~GetActiveSession(db).ok

\* C29: the commits of a session form one chain by their parent links: every
\* commit made after the first commit of its session has a parent, which is a
\* commit of the same session, and no commit is the parent of two commits.
C29_LinearHistory ==
    /\ \A i, j \in 1..Len(db.commits) :
          (i < j /\ db.commits[i].session_id = db.commits[j].session_id) =>
              /\ IsSome(db.commits[j].parent)
              /\ \E k \in 1..Len(db.commits) :
                    /\ db.commits[k].id = Unwrap(db.commits[j].parent)
                    /\ db.commits[k].session_id = db.commits[j].session_id
    /\ \A i, j \in 1..Len(db.commits) :
          (i # j /\ IsSome(db.commits[i].parent)) =>
              db.commits[i].parent # db.commits[j].parent

\* C30: the create_change calls of a batch are made for paths the batch holds
\* that are not ignored and whose event is a create, a modify or a remove, in
\* the order of the batch and at most one for each; all of them are made when
\* none fails.  The change of a create is a Create and that of a modify a
\* Modify, with the bytes of the file as content_after if the file can be read
\* and with none if not; the change of a remove is a Delete with no content.
C30_ChangeByEventKind ==
    batch.run =>
        LET wanted == WantedCalls
            tried == batch.tried
            bytes(path) == IF path \in DOMAIN fs THEN fs[path] ELSE None
            fits(change, e) ==
                /\ change.path = e.path
                /\ change.session_id = batch.session_id
                /\ change.content_before = None
                /\ CASE e.kind = "Create" ->
                          /\ change.change_type = "Create"
                          /\ change.content_after = bytes(e.path)
                     [] e.kind = "Modify" ->
                          /\ change.change_type = "Modify"
                          /\ change.content_after = bytes(e.path)
                     [] e.kind = "Remove" ->
                          /\ change.change_type = "Delete"
                          /\ change.content_after = None
        IN /\ \E at \in [1..Len(tried) -> 1..Len(wanted)] :
                 /\ \A i, j \in 1..Len(tried) : i < j => at[i] < at[j]
                 /\ \A i \in 1..Len(tried) : fits(tried[i].change, wanted[at[i]])
           /\ (\A i \in 1..Len(tried) : tried[i].ok) => Len(tried) = Len(wanted)
           /\ \A i \in 1..Len(tried) :
                 tried[i].ok =>
                     /\ GetChange(db, tried[i].change.id).ok
                     /\ GetChange(db, tried[i].change.id).val.change_type =
                            tried[i].change.change_type
                     /\ GetChange(db, tried[i].change.id).val.content_after =
                            tried[i].change.content_after

\* C30 witness: a batch with a create of a file that can be read and a modify
\* of a path that cannot, both stored, the first with the bytes of the file and
\* the second with no content.
C30_Witness ==
    /\ batch.run
    /\ Len(batch.tried) = 2
    /\ batch.tried[1].ok /\ batch.tried[2].ok
    /\ batch.tried[1].change.change_type = "Create"
    /\ batch.tried[1].change.path = "/r/a.txt"
    /\ batch.tried[1].change.content_after = Some("x")
    /\ batch.tried[2].change.change_type = "Modify"
    /\ batch.tried[2].change.path = "/r/src/main"
    /\ batch.tried[2].change.content_after = None
    /\ Len(db.changes) = 2

\* The changes the pipeline task of a server stored
WatcherChanges ==
    {c.change : c \in {x \in calls : x.op = "create_change" /\ x.via = "watcher" /\ x.ok}}

\* C31: every change the event pipeline stored has no content_before and no
\* content_hash_before, in the call and in its row; and an executed rollback
\* whose changes are all Modify and Delete changes of the pipeline succeeds in
\* every step and leaves every file as it was.
C31_PipelineKeepsNoBefore ==
    /\ \A c \in WatcherChanges :
          /\ c.content_before = None /\ c.content_hash_before = None
          /\ GetChange(db, c.id).ok
          /\ GetChange(db, c.id).val.content_before = None
          /\ GetChange(db, c.id).val.content_hash_before = None
    /\ (/\ rb.run /\ rb.outcome = "done"
        /\ \A i \in 1..Len(rb.steps) :
              /\ rb.steps[i].change \in WatcherChanges
              /\ rb.steps[i].change.change_type \in {"Modify", "Delete"}) =>
          \A i \in 1..Len(rb.steps) :
              /\ rb.steps[i].ok
              /\ rb.steps[i].after = rb.steps[1].before

\* C31 witness: an executed rollback of a commit of two changes of the
\* pipeline, one Modify and one Delete, whose files differ from the files
\* before that commit.
C31_Witness ==
    /\ rb.run /\ rb.outcome = "done" /\ Len(rb.steps) = 2
    /\ \A i \in 1..2 : rb.steps[i].change \in WatcherChanges
    /\ {rb.steps[i].change.change_type : i \in 1..2} = {"Modify", "Delete"}
    /\ rb.steps[2].after = rb.steps[1].before
    /\ IsSome(pre_commit[rb.commit_id])
    /\ rb.steps[2].after # Unwrap(pre_commit[rb.commit_id])

\* The task of the watcher is in std::fs::read
Reading == pipe.steps # <<>> /\ Head(pipe.steps) = "read"

\* C32: the storage lock is never held while a file is read: the task of the
\* watcher reads before it takes the lock, whoever holds the lock has only
\* its storage calls left to do, and while the task reads a file the lock is
\* free or with a handler of the API, which waits for nothing but the store.
C32_NoReadUnderLock ==
    /\ Reading => pipe.lock # Some("pipeline")
    /\ pipe.lock = Some("pipeline") => pipe.steps = <<"create_change">>
    /\ (pipe.steps # <<>> /\ Head(pipe.steps) = "lock") =>
          (\A k \in 1..Len(pipe.steps) : pipe.steps[k] # "read")
    /\ Reading => pipe.lock \in {None, Some("api")}

\* C32 witness: the task is reading a file while a handler of the API holds
\* the lock, after the task has held the lock itself for a create_change.
C32_Witness ==
    /\ Reading
    /\ pipe.lock = Some("api")
    /\ \E x \in calls : x.op = "create_change" /\ x.via = "watcher"

\* The task of the watcher is through with the k-th result the debouncer flushed
Processed(k) ==
    /\ Len(pipe.handled) >= k
    /\ IF IsSome(pipe.cur) THEN Unwrap(pipe.cur).n > k ELSE TRUE

\* The results leave the channel in the order the debouncer flushed them
HandledInOrder == pipe.handled = [i \in 1..Len(pipe.handled) |-> i]

\* Every create_change the task made and that succeeded has its row
StoredByTask ==
    \A x \in calls : (x.op = "create_change" /\ x.via = "watcher" /\ x.ok) =>
        GetChange(db, x.change.id).ok

\* C33: every result the debouncer flushes is processed in the end, in the
\* order of delivery, also when the channel is full and after an error
\* result; and no create/modify/remove path of a result that is not ignored
\* is left without a create_change call, so that each has its change once the
\* insert succeeds.
C33_EveryBatchProcessed ==
    /\ [](HandledInOrder /\ StoredByTask /\ pipe.skipped = {})
    /\ \A k \in 1..MaxSent : (pipe.sent >= k) ~> Processed(k)

\* C34: while one server is running, the session get_active_session answers
\* is the session of that server, under which its pipeline records changes.
C34_ActiveIsServersSession ==
    \A id \in running :
        running = {id} =>
            /\ GetActiveSession(db).ok
            /\ GetActiveSession(db).val.id = id

\* C35: no step adds a change row whose session was already ended, that is,
\* whose session row had active = false before the step.
C35_NoChangeForEndedSession ==
    [][\A i \in (Len(db.changes) + 1)..Len(db'.changes) :
          LET s == GetSession(db, ChangeFromRow(db'.changes[i]).session_id)
          IN IF s.ok THEN s.val.active ELSE TRUE]_vars

\* C36: wherever gitent start puts the database file, no write of the storage
\* layer to that file comes back as a change: no change is stored for the path
\* of the database file.
C36_OwnWritesMakeNoChange ==
    \A i \in 1..Len(db.changes) : ChangeFromRow(db.changes[i]).path # pipe.db_path

\* C37: a POST /commits that stores a commit stores it with exactly the ids
\* the request named: every text of the request is one of its change ids.
C37_CommitHasRequestedIds ==
    [][\A req \in CommitRequests, id \in NewCommitIds :
          (ApiCreateCommit(req, id) /\ id \in CommitRowIds(db')) =>
              /\ \A i \in 1..Len(req.change_ids) :
                    /\ IsSome(ParseUuid(req.change_ids[i]))
                    /\ [commit_id |-> id, change_id |-> Unwrap(ParseUuid(req.change_ids[i]))]
                          \in db'.commit_changes
              /\ \A m \in db'.commit_changes :
                    m.commit_id = id =>
                        \E i \in 1..Len(req.change_ids) :
                            ParseUuid(req.change_ids[i]) = Some(m.change_id)]_vars

\* C38: every commit row has at least one membership row.
C38_CommitHasAChange ==
    \A i \in 1..Len(db.commits) :
        \E m \in db.commit_changes : m.commit_id = db.commits[i].id

\* The body lines of the script lines whose index is in S, from index i on, joined
RECURSIVE BodyOf(_, _, _)
BodyOf(lines, S, i) ==
    IF i > Len(lines) THEN ""
    ELSE (IF i \in S THEN BodyLine(lines[i]) ELSE "") \o BodyOf(lines, S, i + 1)

\* The hunk bodies of a unified output, joined in the order of the output
RECURSIVE AllBodies(_)
AllBodies(output) ==
    IF output = <<>> THEN ""
    ELSE (IF Head(output).fmt = "{}" THEN Head(output).args[1] ELSE "")
         \o AllBodies(Tail(output))

\* C39: whatever the edit script and context_lines, format_unified returns,
\* and the hunk bodies of its output, read in order, are lines of the script
\* in script order, each at most once, with every Addition and every Deletion
\* line among them; and every body stands right after a @@ header.
C39_ChangedLinesOnce ==
    (last_diff.run /\ last_diff.formatted) =>
        LET lines == last_diff.result.val.diff_lines
            output == last_diff.output
            changed == {i \in 1..Len(lines) : lines[i].line_type # "Context"}
        IN /\ last_diff.returned
           /\ \E S \in SUBSET (1..Len(lines)) :
                 /\ changed \subseteq S
                 /\ BodyOf(lines, S, 1) = AllBodies(output)
           /\ \A k \in 1..Len(output) :
                 output[k].fmt = "{}" => (k > 1 /\ (k - 1) \in HunkHeaders(output))

\* C8: for a list of distinct existing change ids, create_commit succeeds and
\* get_commit of the commit id returns the same set of change ids, whatever
\* the order they were listed in, and the same message, agent id, parent and
\* session id.
C8_CommitRoundTrip ==
    \A c \in CommitCalls :
        (Distinct(c.commit.changes) /\ c.ids_exist) =>
            /\ c.ok
            /\ GetCommit(db, c.commit.id).ok
            /\ LET got == GetCommit(db, c.commit.id).val
               IN /\ Range(got.changes) = Range(c.commit.changes)
                  /\ Len(got.changes) = Len(c.commit.changes)
                  /\ got.id = c.commit.id
                  /\ got.message = c.commit.message
                  /\ got.agent_id = c.commit.agent_id
                  /\ got.parent = c.commit.parent
                  /\ got.session_id = c.commit.session_id

\* C8 witness: a commit of two existing changes listed in descending id order
\* (get_commit reads them back ascending), next to another commit.
C8_Witness ==
    \E c \in CommitCalls :
        /\ c.ok /\ Len(c.commit.changes) = 2
        /\ c.commit.changes[1] > c.commit.changes[2]
        /\ c.ids_exist
        /\ GetCommit(db, c.commit.id).ok
        /\ GetCommit(db, c.commit.id).val.changes # c.commit.changes
        /\ Len(db.commits) = 2

\* C9: create_change of a change whose session exists succeeds, and get_change
\* of its id returns a change with equal kind, path, old path, contents, hashes,
\* agent id, metadata and session id, where a hash is present exactly when the
\* matching content is.
C9_ChangeRoundTrip ==
    \A c \in ChangeCalls :
        c.session_exists =>
            /\ c.ok
            /\ GetChange(db, c.change.id).ok
            /\ LET got == GetChange(db, c.change.id).val
               IN /\ got.change_type = c.change.change_type
                  /\ got.path = c.change.path
                  /\ got.old_path = c.change.old_path
                  /\ got.content_before = c.change.content_before
                  /\ got.content_after = c.change.content_after
                  /\ got.content_hash_before = c.change.content_hash_before
                  /\ got.content_hash_after = c.change.content_hash_after
                  /\ got.agent_id = c.change.agent_id
                  /\ got.metadata = c.change.metadata
                  /\ got.session_id = c.change.session_id
                  /\ IsSome(got.content_hash_before) <=> IsSome(got.content_before)
                  /\ IsSome(got.content_hash_after) <=> IsSome(got.content_after)

\* C10: in every CommitInfo of get_commits_for_session, files_affected holds
\* each affected path once and change_count is the number of the commit's
\* changes.
C10_FilesAffectedOnce ==
    \A s \in SessionIds :
        LET infos == GetCommitsForSession(db, s)
        IN \A k \in 1..Len(infos) :
            /\ Distinct(infos[k].files_affected)
            /\ Range(infos[k].files_affected) =
                   {db.changes[i].path : i \in {n \in 1..Len(db.changes) :
                        db.changes[n].id \in Range(infos[k].commit.changes)}}
            /\ infos[k].change_count =
                   Cardinality(Range(infos[k].commit.changes) \cap ChangeRowIds(db))

====
